---- MODULE Spec2Model ----
(***************************************************************************)
(* Model of the snippets repository: the slug generator                    *)
(* (src/snippets/sdk/decorators/sluggen.py) and the snippet validator      *)
(* (src/snippets/assets/snippets-validator.py).                            *)
(*                                                                         *)
(* A Python str is a sequence of characters; a character is a one-element  *)
(* token: printable ASCII characters stand for themselves, other code      *)
(* points are written "U+XXXX".                                            *)
(***************************************************************************)
EXTENDS Integers, Sequences, FiniteSets, TLC

VARIABLES max_length, word_separator, stop_words, now, pc, ret, memo, fs

vars == <<max_length, word_separator, stop_words, now, pc, ret, memo, fs>>

(***************************************************************************)
(* Characters                                                              *)
(***************************************************************************)
LowerSeq ==
    <<"a","b","c","d","e","f","g","h","i","j","k","l","m",
      "n","o","p","q","r","s","t","u","v","w","x","y","z">>

UpperSeq ==
    <<"A","B","C","D","E","F","G","H","I","J","K","L","M",
      "N","O","P","Q","R","S","T","U","V","W","X","Y","Z">>

DigitSeq == <<"0","1","2","3","4","5","6","7","8","9">>

Range(s) == {s[i] : i \in 1..Len(s)}

AsciiLower == Range(LowerSeq)

AsciiUpper == Range(UpperSeq)

AsciiDigit == Range(DigitSeq)

\* U+00C1 LATIN CAPITAL A WITH ACUTE, U+00E1 its lower case, U+0301 the
\* combining acute accent, U+00DF LATIN SMALL SHARP S (alphanumeric, outside
\* ASCII, no decomposition), U+210B SCRIPT CAPITAL H (an upper-case letter
\* without lower-case mapping whose compatibility decomposition is "H").
NonAsciiAlnum == {"U+00C1", "U+00E1", "U+00DF", "U+210B"}

Whitespace == {" ", "\n"}

\* str.lower() on one character
lower(c) ==
    IF c \in AsciiUpper
    THEN LowerSeq[CHOOSE i \in 1..Len(UpperSeq) : UpperSeq[i] = c]
    ELSE IF c = "U+00C1" THEN "U+00E1" ELSE c

\* unicodedata.normalize("NFKD", c) for one character
nfkd(c) ==
    CASE c = "U+00E1" -> <<"a", "U+0301">>
      [] c = "U+00C1" -> <<"A", "U+0301">>
      [] c = "U+210B" -> <<"H">>
      [] OTHER -> <<c>>

\* unicodedata.combining(c) != 0
combining(c) == c = "U+0301"

\* str.isalnum() / str.isdigit() / str.isspace() on one character
isalnum_char(c) == c \in AsciiLower \cup AsciiUpper \cup AsciiDigit \cup NonAsciiAlnum

isdigit_char(c) == c \in AsciiDigit

isspace_char(c) == c \in Whitespace

(***************************************************************************)
(* Strings                                                                 *)
(***************************************************************************)
RECURSIVE FlatMap(_, _)
\* "".join(f(c) for c in s), f given as a function from characters to strings
FlatMap(f, s) == IF s = <<>> THEN <<>> ELSE f[Head(s)] \o FlatMap(f, Tail(s))

str_lower(s) == [i \in 1..Len(s) |-> lower(s[i])]

str_isalnum(s) == Len(s) > 0 /\ \A i \in 1..Len(s) : isalnum_char(s[i])

str_isdigit(s) == Len(s) > 0 /\ \A i \in 1..Len(s) : isdigit_char(s[i])

\* s[:n] and s[n:] of Python, for any integer n
SliceTo(s, n) ==
    IF n >= 0 THEN SubSeq(s, 1, IF n < Len(s) THEN n ELSE Len(s))
    ELSE SubSeq(s, 1, IF Len(s) + n > 0 THEN Len(s) + n ELSE 0)

SliceFrom(s, n) ==
    IF n >= 0 THEN SubSeq(s, n + 1, Len(s))
    ELSE SubSeq(s, (IF Len(s) + n > 0 THEN Len(s) + n ELSE 0) + 1, Len(s))

\* s.startswith(p)
startswith(s, p) == Len(p) <= Len(s) /\ SubSeq(s, 1, Len(p)) = p

RECURSIVE replace(_, _, _)
\* s.replace(old, new): non-overlapping occurrences, left to right
replace(s, old, new) ==
    IF old = <<>>
    THEN new \o FlatMap([c \in Range(s) |-> <<c>> \o new], s)
    ELSE IF s = <<>> THEN <<>>
    ELSE IF startswith(s, old)
         THEN new \o replace(SubSeq(s, Len(old) + 1, Len(s)), old, new)
         ELSE <<Head(s)>> \o replace(Tail(s), old, new)

RECURSIVE lstrip(_, _)
lstrip(s, chars) ==
    IF s # <<>> /\ Head(s) \in chars THEN lstrip(Tail(s), chars) ELSE s

RECURSIVE rstrip(_, _)
rstrip(s, chars) ==
    IF s # <<>> /\ s[Len(s)] \in chars
    THEN rstrip(SubSeq(s, 1, Len(s) - 1), chars) ELSE s

\* s.strip(chars); s.strip() is strip(s, Whitespace)
strip(s, chars) == rstrip(lstrip(s, chars), chars)

\* s.rfind(c) for a one-character c: 0-based index of the last occurrence, -1 if none
rfind(s, c) ==
    IF \E i \in 1..Len(s) : s[i] = c
    THEN (CHOOSE i \in 1..Len(s) : s[i] = c /\ \A j \in (i+1)..Len(s) : s[j] # c) - 1
    ELSE -1

RECURSIVE split(_)
\* s.split(): the maximal runs of non-whitespace characters
split(s) ==
    LET t == lstrip(s, Whitespace) IN
    IF t = <<>> THEN <<>>
    ELSE LET n == IF \E i \in 1..Len(t) : isspace_char(t[i])
                  THEN (CHOOSE i \in 1..Len(t) :
                            isspace_char(t[i]) /\ \A j \in 1..(i-1) : ~isspace_char(t[j])) - 1
                  ELSE Len(t)
         IN <<SubSeq(t, 1, n)>> \o split(SubSeq(t, n + 1, Len(t)))

RECURSIVE join(_, _)
\* sep.join(words)
join(sep, words) ==
    IF words = <<>> THEN <<>>
    ELSE IF Len(words) = 1 THEN words[1]
    ELSE words[1] \o sep \o join(sep, Tail(words))

RECURSIVE collapse(_, _, _)
\* re.sub("[chars]+", rep, s): each maximal run of characters of chars becomes rep
collapse(s, chars, rep) ==
    IF s = <<>> THEN <<>>
    ELSE IF Head(s) \in chars
         THEN rep \o collapse(lstrip(s, chars), chars, rep)
         ELSE <<Head(s)>> \o collapse(Tail(s), chars, rep)

\* re.sub("[chars]", rep, s): every character of chars becomes rep
sub_each(s, chars, rep) ==
    FlatMap([c \in Range(s) |-> IF c \in chars THEN rep ELSE <<c>>], s)

RECURSIVE str_int(_)
\* str(n) for an integer n >= 0
str_int(n) ==
    IF n < 10 THEN <<DigitSeq[n + 1]>>
    ELSE str_int(n \div 10) \o <<DigitSeq[(n % 10) + 1]>>

(***************************************************************************)
(* SlugGenerator                                                           *)
(***************************************************************************)
\* SlugGenerator.__init__: self.stop_words
StopWords ==
    { <<"a">>, <<"a","n">>, <<"a","n","d">>, <<"a","r","e">>, <<"a","s">>,
      <<"a","t">>, <<"b","e">>, <<"b","y">>, <<"f","o","r">>,
      <<"f","r","o","m">>, <<"h","a","s">>, <<"h","e">>, <<"i","n">>,
      <<"i","s">>, <<"i","t">>, <<"i","t","s">>, <<"o","f">>, <<"o","n">>,
      <<"t","h","a","t">>, <<"t","h","e">>, <<"t","o">>, <<"w","a","s">>,
      <<"w","i","l","l">>, <<"w","i","t","h">> }

\* the sentinel returned for a title that yields no slug
Untitled == <<"u","n","t","i","t","l","e","d">>

\* the generator object, read from its fields
Self == [max_length |-> max_length, word_separator |-> word_separator,
         stop_words |-> stop_words]

\* str(int(time.time()))[-6:]
timestamp_suffix(clock) == SliceFrom(str_int(clock), -6)

\* SlugGenerator.remove_accents
remove_accents(text) ==
    SelectSeq(FlatMap([c \in Range(text) |-> nfkd(c)], text), LAMBDA c : ~combining(c))

AndSymbols == {"&", "+", "@", "#", "%"}

Punctuation == {".", ",", ";", ":", "!", "?", "(", ")", "[", "]", "{", "}", "\"", "'"}

Slashes == {"/", "\\", "|"}

RECURSIVE camel_split(_)
\* re.sub(r"([a-z])([A-Z])", r"\1 \2", text)
camel_split(text) ==
    IF Len(text) < 2 THEN text
    ELSE IF text[1] \in AsciiLower /\ text[2] \in AsciiUpper
         THEN <<text[1], " ", text[2]>> \o camel_split(SubSeq(text, 3, Len(text)))
         ELSE <<text[1]>> \o camel_split(Tail(text))

\* re.sub(r"([0-9]+)", r" \1 ", text): every maximal digit run is padded with spaces
separate_numbers(text) ==
    LET pad(i) ==
            IF ~isdigit_char(text[i]) THEN <<text[i]>>
            ELSE (IF i = 1 \/ ~isdigit_char(text[i-1]) THEN <<" ">> ELSE <<>>)
                 \o <<text[i]>>
                 \o (IF i = Len(text) \/ ~isdigit_char(text[i+1]) THEN <<" ">> ELSE <<>>)
        RECURSIVE go(_)
        go(i) == IF i > Len(text) THEN <<>> ELSE pad(i) \o go(i + 1)
    IN go(1)

\* SlugGenerator.clean_text
clean_text(text) ==
    IF text = <<>> THEN <<>>
    ELSE LET t1 == str_lower(text)
             t2 == remove_accents(t1)
             t3 == sub_each(t2, AndSymbols, <<" ","a","n","d"," ">>)
             t4 == sub_each(t3, Punctuation, <<" ">>)
             t5 == sub_each(t4, Slashes, <<" ">>)
             t6 == camel_split(t5)
             t7 == separate_numbers(t6)
         IN strip(collapse(t7, Whitespace, <<" ">>), Whitespace)

\* keep_word without the single-character rule
keep_word_single(self, word, remove_stop_words) ==
    /\ ~(word = <<>> \/ Len(word) < 1)
    /\ ~(remove_stop_words /\ str_lower(word) \in self.stop_words)
    /\ (str_isalnum(word) \/ "-" \in Range(word) \/ "_" \in Range(word))

\* one pass of the loop body of SlugGenerator.filter_words: is the word kept
keep_word(self, word, remove_stop_words) ==
    /\ ~(word = <<>> \/ Len(word) < 1)
    /\ ~(Len(word) = 1 /\ ~str_isdigit(word))
    /\ ~(remove_stop_words /\ str_lower(word) \in self.stop_words)
    /\ (str_isalnum(word) \/ "-" \in Range(word) \/ "_" \in Range(word))

\* SlugGenerator.filter_words
filter_words(self, words, remove_stop_words) ==
    SelectSeq(words, LAMBDA w : keep_word(self, w, remove_stop_words))

\* truncate_slug cutting at max_length whatever the prefix holds
truncate_slug_hard_cut(self, slug) ==
    IF Len(slug) <= self.max_length THEN slug ELSE SliceTo(slug, self.max_length)

\* SlugGenerator.truncate_slug
truncate_slug(self, slug) ==
    IF Len(slug) <= self.max_length THEN slug
    ELSE LET truncated == SliceTo(slug, self.max_length)
             last_separator == rfind(truncated, self.word_separator)
         IN IF last_separator > 0 THEN SliceTo(truncated, last_separator)
            ELSE truncated

RECURSIVE apply_replacements(_, _)
\* the loop over custom_replacements.items(), in mapping order
apply_replacements(text, custom_replacements) ==
    IF custom_replacements = <<>> THEN text
    ELSE apply_replacements(
             replace(text, custom_replacements[1].old, custom_replacements[1].new),
             Tail(custom_replacements))

\* re.sub(r"[^a-zA-Z0-9\-_]", "", slug)
remove_invalid(slug) ==
    SelectSeq(slug, LAMBDA c : c \in AsciiLower \cup AsciiUpper \cup AsciiDigit \cup {"-", "_"})

\* generate_slug from the joined words on: lines 160-171, the slug handed to
\* the final cleanup
cleaned_slug(self, joined) ==
    LET s1 == remove_invalid(joined)
        s2 == collapse(s1, {self.word_separator}, <<self.word_separator>>)
    IN strip(s2, {self.word_separator})

\* final_slug without the fallback to the sentinel
final_slug_no_fallback(self, slug) == strip(slug, {self.word_separator})

\* the final cleanup and the last fallback of generate_slug (lines 173-176)
final_slug(self, slug) ==
    LET s == strip(slug, {self.word_separator})
    IN IF s # <<>> THEN s ELSE Untitled

\* the words generate_slug keeps (lines 138-151)
slug_words(self, title, remove_stop_words, custom_replacements) ==
    filter_words(self, split(clean_text(apply_replacements(title, custom_replacements))),
                 remove_stop_words)

\* the slug before truncation (lines 157-168)
untruncated_slug(self, title, remove_stop_words, custom_replacements) ==
    cleaned_slug(self, join(<<self.word_separator>>,
                            slug_words(self, title, remove_stop_words, custom_replacements)))

\* generate_slug with a sentinel that carries the time of the call
generate_slug_timestamped(self, title, remove_stop_words, custom_replacements) ==
    IF title = <<>> \/ strip(title, Whitespace) = <<>>
    THEN Untitled \o timestamp_suffix(now)
    ELSE IF slug_words(self, title, remove_stop_words, custom_replacements) = <<>>
         THEN Untitled \o timestamp_suffix(now)
         ELSE final_slug(self, truncate_slug(self,
                  untruncated_slug(self, title, remove_stop_words, custom_replacements)))

\* SlugGenerator.generate_slug
generate_slug(self, title, remove_stop_words, custom_replacements) ==
    IF title = <<>> \/ strip(title, Whitespace) = <<>> THEN Untitled
    ELSE IF slug_words(self, title, remove_stop_words, custom_replacements) = <<>>
         THEN Untitled
         ELSE final_slug(self, truncate_slug(self,
                  untruncated_slug(self, title, remove_stop_words, custom_replacements)))

\* probes with range(2, max_attempts + 1)
probes_short(max_attempts) == 2..max_attempts

\* the candidates generate_unique_slug probes: range(2, max_attempts + 2)
probes(max_attempts) == 2..(max_attempts + 1)

candidate(self, base_slug, i) == base_slug \o <<self.word_separator>> \o str_int(i)

\* generate_unique_slug returning the first numbered candidate unchecked
generate_unique_slug_unchecked(self, title, existing_slugs, max_attempts, clock) ==
    LET base_slug == generate_slug(self, title, TRUE, <<>>)
    IN IF base_slug \notin existing_slugs THEN base_slug
       ELSE IF probes(max_attempts) # {}
            THEN candidate(self, base_slug, 2)
            ELSE base_slug \o <<self.word_separator>> \o timestamp_suffix(clock)

\* SlugGenerator.generate_unique_slug, clock the value of time.time()
generate_unique_slug(self, title, existing_slugs, max_attempts, clock) ==
    LET base_slug == generate_slug(self, title, TRUE, <<>>)
        free == {i \in probes(max_attempts) : candidate(self, base_slug, i) \notin existing_slugs}
    IN IF base_slug \notin existing_slugs THEN base_slug
       ELSE IF free # {}
            THEN candidate(self, base_slug, CHOOSE i \in free : \A j \in free : i <= j)
            ELSE base_slug \o <<self.word_separator>> \o timestamp_suffix(clock)

(***************************************************************************)
(* Snippet validator                                                       *)
(*                                                                         *)
(* A file content is the sequence of its lines (the pieces between "\n"),  *)
(* each line a str; the empty content is the one empty line.               *)
(***************************************************************************)
None == [found |-> FALSE, lines |-> <<>>]

\* the ^---\s*$ shape of a line: three hyphens, then whitespace only
is_dash_line(line) ==
    /\ startswith(line, <<"-","-","-">>)
    /\ \A i \in 4..Len(line) : isspace_char(line[i])

is_blank_line(line) == \A i \in 1..Len(line) : isspace_char(line[i])

\* the line counts k the opening ---\s*\n can swallow after line 1: lines
\* 2..1+k are blank and line 1+k is not the last one
opening_skips(content) ==
    {k \in 0..(Len(content) - 2) : \A j \in 2..(1 + k) : is_blank_line(content[j])}

\* the closing lines a block starting after k swallowed lines can end at
closing_lines(content, k) ==
    {c \in (k + 3)..Len(content) : is_dash_line(content[c])}

\* extract_frontmatter with a greedy group: the last closing line ends the block
extract_frontmatter_greedy(content) ==
    IF ~startswith(content[1], <<"-","-","-">>) THEN None
    ELSE LET ks == {k \in opening_skips(content) : closing_lines(content, k) # {}}
         IN IF ~is_dash_line(content[1]) \/ ks = {} THEN None
            ELSE LET k == CHOOSE x \in ks : \A y \in ks : y <= x
                     c == CHOOSE x \in closing_lines(content, k) :
                              \A y \in closing_lines(content, k) : y <= x
                 IN [found |-> TRUE, lines |-> SubSeq(content, k + 2, c - 1)]

\* extract_frontmatter: re.match(r"^---\s*\n(.*?)\n---\s*$", content,
\* re.MULTILINE | re.DOTALL); \s* is greedy (the largest k that still matches),
\* (.*?) is lazy (the first closing line after it)
extract_frontmatter(content) ==
    IF ~startswith(content[1], <<"-","-","-">>) THEN None
    ELSE LET ks == {k \in opening_skips(content) : closing_lines(content, k) # {}}
         IN IF ~is_dash_line(content[1]) \/ ks = {} THEN None
            ELSE LET k == CHOOSE x \in ks : \A y \in ks : y <= x
                     c == CHOOSE x \in closing_lines(content, k) :
                              \A y \in closing_lines(content, k) : x <= y
                 IN [found |-> TRUE, lines |-> SubSeq(content, k + 2, c - 1)]

\* validate_ulid_format: re.match(r"^[0-9A-HJKMNP-TV-Z]{26}$", s, re.IGNORECASE);
\* $ also matches before one trailing newline
CrockfordUpper == AsciiUpper \ {"I", "L", "O", "U"}

\* under re.IGNORECASE the long s (U+017F) matches S and the Kelvin sign
\* (U+212A) matches K
is_crockford(c) ==
    \/ c \in AsciiDigit
    \/ c \in CrockfordUpper
    \/ \E u \in CrockfordUpper : lower(u) = c
    \/ c \in {"U+017F", "U+212A"}

validate_ulid_format(ulid_str) ==
    /\ Len(ulid_str) \in {26, 27}
    /\ \A i \in 1..26 : is_crockford(ulid_str[i])
    /\ Len(ulid_str) = 27 => ulid_str[27] = "\n"

(***************************************************************************)
(* yaml.safe_load on a front-matter block, for blocks written in the       *)
(* vocabulary of lines below: blank lines, a leading document marker,      *)
(* "key: value" entries, plain scalars, "- x" items, "[" and "{}".         *)
(***************************************************************************)
IdKey == <<"i","d",":"," ">>

TitleLine == <<"t","i","t","l","e",":"," ","x">>

BadDateLine == <<"d",":"," ","2","0","2","1","-","0","2","-","3","0">>

ItemLine == <<"-"," ","x">>

OpenFlowLine == <<"[">>

EmptyMapLine == <<"{","}">>

NumberLine == <<"4","2">>

WordLine == <<"v","a","l","i","d">>

DashWordLine == <<"-","-","-","x">>

DocumentMarker == <<"-","-","-">>

is_entry_line(line) == startswith(line, IdKey) \/ line = TitleLine \/ line = BadDateLine

is_plain_line(line) == line \in {WordLine, NumberLine, DashWordLine}

\* the lines a plain scalar goes on over
is_folded_line(line) ==
    line \in {WordLine, NumberLine, DashWordLine, ItemLine, OpenFlowLine, EmptyMapLine}

\* the implicit tag of a plain scalar made of digits: an int when it matches
\* 0[0-7]+, 0 or [1-9][0-9]*, a str otherwise
yaml_scalar(text) ==
    LET digits == text # <<>> /\ \A i \in 1..Len(text) : text[i] \in AsciiDigit
        octal == \A i \in 1..Len(text) : text[i] \in {"0","1","2","3","4","5","6","7"}
    IN [type |-> IF digits /\ (text[1] # "0" \/ Len(text) = 1 \/ octal)
                 THEN "int" ELSE "str",
        text |-> text]

NoValue == [type |-> "none", text |-> <<>>]

YamlValue(tag, keys, id, mentions_id) ==
    [tag |-> tag, keys |-> keys, id |-> id, mentions_id |-> mentions_id]

\* "id" in s for a str s
contains_id(s) == \E i \in 1..(Len(s) - 1) : s[i] = "i" /\ s[i+1] = "d"

\* yaml.safe_load(frontmatter_str): tag is the type of the value, or the
\* exception raised
yaml_safe_load(lines) ==
    LET nonblank == SelectSeq(lines, LAMBDA l : ~is_blank_line(l))
        body == IF nonblank # <<>> /\ nonblank[1] = DocumentMarker
                THEN Tail(nonblank) ELSE nonblank
        ids == SelectSeq(body, LAMBDA l : startswith(l, IdKey))
    IN IF \E i \in 1..Len(body) : body[i] = DocumentMarker
       THEN YamlValue("YAMLError", {}, NoValue, FALSE)
       ELSE IF body = <<>> THEN YamlValue("none", {}, NoValue, FALSE)
       ELSE IF \A i \in 1..Len(body) : is_entry_line(body[i])
       THEN IF \E i \in 1..Len(body) : body[i] = BadDateLine
            THEN YamlValue("ValueError", {}, NoValue, FALSE)
            ELSE YamlValue("mapping",
                     (IF ids # <<>> THEN {"id"} ELSE {})
                         \cup (IF \E i \in 1..Len(body) : body[i] = TitleLine
                               THEN {"title"} ELSE {}),
                     IF ids # <<>>
                     THEN yaml_scalar(SubSeq(ids[Len(ids)], 5, Len(ids[Len(ids)])))
                     ELSE NoValue,
                     FALSE)
       ELSE IF \A i \in 1..Len(body) : body[i] = ItemLine
       THEN YamlValue("list", {}, NoValue, FALSE)
       ELSE IF body = <<EmptyMapLine>> THEN YamlValue("mapping", {}, NoValue, FALSE)
       ELSE IF body = <<NumberLine>> THEN YamlValue("int", {}, NoValue, FALSE)
       ELSE IF is_plain_line(body[1]) /\ \A i \in 2..Len(body) : is_folded_line(body[i])
       THEN YamlValue("str", {}, NoValue, \E i \in 1..Len(body) : contains_id(body[i]))
       ELSE YamlValue("YAMLError", {}, NoValue, FALSE)

\* jsonschema.validate(instance, schema) for the schemas
\* {} / {"type": "object"} / {"required": ["id"]} / {"properties": {"id":
\* {"type": "string"}}} and their conjunctions, and for a malformed schema
jsonschema_validate(instance, schema) ==
    IF ~schema.well_formed THEN "SchemaError"
    ELSE IF \/ schema.type_object /\ instance.tag # "mapping"
            \/ /\ instance.tag = "mapping"
               /\ \/ schema.required_id /\ "id" \notin instance.keys
                  \/ schema.id_string /\ "id" \in instance.keys /\ instance.id.type # "str"
         THEN "ValidationError"
         ELSE "ok"

\* bool(frontmatter)
truthy(v) ==
    CASE v.tag = "none" -> FALSE
      [] v.tag = "mapping" -> v.keys # {}
      [] OTHER -> TRUE

Error(text, args) == [text |-> text, args |-> args]

Returned(errors) == [raised |-> "none", errors |-> errors]

Raised(exception, errors) == [raised |-> exception, errors |-> errors]

\* lines 107-114 of validate_markdown_file: the identity check, given the
\* errors so far
identity_check(frontmatter, filename_ulid, errors) ==
    IF ~truthy(frontmatter) THEN Returned(errors)
    ELSE CASE frontmatter.tag = "int" -> Raised("TypeError", errors)
           [] frontmatter.tag = "str" ->
                IF frontmatter.mentions_id THEN Raised("AttributeError", errors)
                ELSE Returned(Append(errors, Error("Missing 'id' field in frontmatter", <<>>)))
           [] frontmatter.tag = "list" ->
                Returned(Append(errors, Error("Missing 'id' field in frontmatter", <<>>)))
           [] OTHER ->
                IF "id" \notin frontmatter.keys
                THEN Returned(Append(errors, Error("Missing 'id' field in frontmatter", <<>>)))
                ELSE IF ~(frontmatter.id.type = "str" /\ frontmatter.id.text = filename_ulid)
                     THEN Returned(Append(errors,
                              Error("ULID mismatch: filename has '' but frontmatter id is ''",
                                    <<filename_ulid, frontmatter.id.text>>)))
                     ELSE Returned(errors)

\* lines 90-114 of validate_markdown_file: the checks on parsed front matter
checks_after_parse(frontmatter, filename_ulid, schema) ==
    LET verdict == jsonschema_validate(frontmatter, schema)
        e1 == CASE verdict = "ValidationError" -> <<Error("Schema validation failed: ", <<>>)>>
                [] verdict = "SchemaError" -> <<Error("Schema error: ", <<>>)>>
                [] OTHER -> <<>>
        e2 == IF ~validate_ulid_format(filename_ulid)
              THEN Append(e1, Error("Filename '' does not follow <ulid>.md format (invalid ULID)",
                                    <<filename_ulid>>))
              ELSE e1
    IN identity_check(frontmatter, filename_ulid, e2)

\* validate_markdown_file(filepath, schema): file is the file at filepath (its
\* stem, whether it can be read, its content), importable whether jsonschema
\* and yaml can be imported; the value is the list returned or the exception
\* that leaves the function
validate_markdown_file(file, schema, importable) ==
    IF ~importable THEN Returned(<<Error("Missing dependency: ", <<>>)>>)
    ELSE IF ~file.readable THEN Returned(<<Error("Error reading file ", <<>>)>>)
    ELSE LET frontmatter_str == extract_frontmatter(file.content)
             frontmatter == yaml_safe_load(frontmatter_str.lines)
         IN IF frontmatter_str = None
            THEN Returned(<<Error("No valid YAML frontmatter found", <<>>)>>)
            ELSE IF frontmatter.tag = "YAMLError"
            THEN Returned(<<Error("Invalid YAML in frontmatter: ", <<>>)>>)
            ELSE IF frontmatter.tag = "ValueError" THEN Raised("ValueError", <<>>)
            ELSE checks_after_parse(frontmatter, file.stem, schema)

(***************************************************************************)
(* Bounds and inputs                                                       *)
(***************************************************************************)
MaxTitleLen == 3

ShortMaxLength == 2

MaxAttempts == 2

StartTime == 1700000123

MaxTicks == 1

\* SlugGenerator.__init__ defaults
DefaultMaxLength == 50

DefaultWordSeparator == "-"

TitleChars == {"a", "t", " ", "-", "_", "1", "&", "U+00C1"}

\* titles with a symbol clean_text removes, with an upper-case letter that
\* str.lower leaves alone and with a letter that has no ASCII form
ExtraTitles ==
    { <<"$">>, <<"$","$">>, <<"a","$","t">>, <<"$","-">>, <<"_","$">>, <<"t"," ","$">>,
      <<"U+210B">>, <<"U+210B","U+210B">>, <<"t","U+210B">>, <<"U+210B"," ","t">>,
      <<"a","U+210B","1">>, <<"U+210B","-","a">>,
      <<"U+00DF">>, <<"U+00DF","U+00DF">>, <<"a","U+00DF">>, <<"U+00DF"," ","t">>,
      <<"a","-","U+00DF">>, <<"t","U+00DF","1">> }

StrUpTo(chars, n) == UNION {[1..k -> chars] : k \in 0..n}

Titles == StrUpTo(TitleChars, MaxTitleLen) \cup ExtraTitles

MaxLengths == {ShortMaxLength, ShortMaxLength + 1, DefaultMaxLength}

Separators == {DefaultWordSeparator, "_"}

\* custom_replacements: None, or a mapping whose second entry rewrites what the
\* first one produced
Replacements ==
    { <<>>,
      <<[old |-> <<"t">>, new |-> <<"a", "_">>], [old |-> <<"_">>, new |-> <<"-", "t">>]>> }

\* titles handed to generate_unique_slug
UniqueTitles ==
    { <<>>, <<"a","t">>, <<"t","t">>, <<"t","-","a">>, <<"U+00C1","t"," ","1">>,
      <<"t","t"," ","a","a">>, <<"_","t","_">>, <<"&","1">> }

\* titles of the call sequences in which time passes and generators change
DetTitles == { <<>>, <<"-","a","t">>, <<"U+00C1"," ","t","1">> }

\* the sets of existing slugs: the base slug, its first n numbered candidates,
\* the fallback the clock would give, in every combination
slug_pool(self, title, clock, n) ==
    LET base_slug == generate_slug(self, title, TRUE, <<>>)
    IN {base_slug, base_slug \o <<self.word_separator>> \o timestamp_suffix(clock)}
       \cup {candidate(self, base_slug, i) : i \in probes(n)}

(***************************************************************************)
(* State machine of the slug generator                                     *)
(*                                                                         *)
(* max_length, word_separator, stop_words: the fields of the generator;    *)
(* now: time.time(); pc, ret: the caller's position and the last call with *)
(* its returned value; memo: an earlier generate_slug call (history).      *)
(***************************************************************************)
NoCall ==
    [op |-> "none", self |-> <<>>, title |-> <<>>, remove_stop_words |-> TRUE,
     custom_replacements |-> <<>>, existing_slugs |-> {}, max_attempts |-> 0,
     clock |-> 0, value |-> <<>>]

\* SlugGenerator.__init__
InitGenerator ==
    /\ max_length \in MaxLengths
    /\ word_separator \in Separators
    /\ stop_words = StopWords

Init ==
    /\ InitGenerator
    /\ now = StartTime
    /\ pc = "idle"
    /\ ret = NoCall
    /\ memo = NoCall
    /\ fs = [p \in {<<>>} |-> [kind |-> "dir", data |-> <<>>]]

\* a call of generate_slug with a title of T
GenerateSlugCall(T) ==
    /\ pc = "idle"
    /\ \E title \in T, remove_stop_words \in BOOLEAN, custom_replacements \in Replacements :
         ret' = [op |-> "generate_slug", self |-> Self, title |-> title,
                 remove_stop_words |-> remove_stop_words,
                 custom_replacements |-> custom_replacements,
                 existing_slugs |-> {}, max_attempts |-> 0, clock |-> now,
                 value |-> generate_slug(Self, title, remove_stop_words, custom_replacements)]
    /\ pc' = "returned"
    /\ UNCHANGED <<max_length, word_separator, stop_words, now, fs>>

\* a call of generate_unique_slug with a title of T and at most n attempts
GenerateUniqueSlugCall(T, n) ==
    /\ pc = "idle"
    /\ \E title \in T, max_attempts \in 0..n :
         \E existing_slugs \in SUBSET slug_pool(Self, title, now, n) :
           ret' = [op |-> "generate_unique_slug", self |-> Self, title |-> title,
                   remove_stop_words |-> TRUE, custom_replacements |-> <<>>,
                   existing_slugs |-> existing_slugs, max_attempts |-> max_attempts,
                   clock |-> now,
                   value |-> generate_unique_slug(Self, title, existing_slugs,
                                                  max_attempts, now)]
    /\ pc' = "returned"
    /\ UNCHANGED <<max_length, word_separator, stop_words, now, fs>>

GenerateSlug == GenerateSlugCall(Titles) /\ UNCHANGED memo

GenerateUniqueSlug == GenerateUniqueSlugCall(UniqueTitles, MaxAttempts) /\ UNCHANGED memo

\* the caller takes the returned value and goes on
Return ==
    /\ pc = "returned"
    /\ pc' = "idle"
    /\ ret' = NoCall
    /\ UNCHANGED <<max_length, word_separator, stop_words, now, memo, fs>>

Next == GenerateSlug \/ GenerateUniqueSlug \/ Return

Spec == Init /\ [][Next]_vars

(***************************************************************************)
(* Call sequences: time passes, other generators are constructed, and the  *)
(* first generate_slug call is remembered in memo.                         *)
(***************************************************************************)
GenerateSlugLogged ==
    /\ GenerateSlugCall(DetTitles)
    /\ memo' = IF memo = NoCall THEN ret' ELSE memo

GenerateUniqueSlugBetween == GenerateUniqueSlugCall(DetTitles, 0) /\ UNCHANGED memo

\* a second of time.time() passes between two calls
Tick ==
    /\ pc = "idle"
    /\ now < StartTime + MaxTicks
    /\ now' = now + 1
    /\ UNCHANGED <<max_length, word_separator, stop_words, pc, ret, memo, fs>>

\* the caller constructs another generator and goes on with that one
NewGenerator ==
    /\ pc = "idle"
    /\ max_length' \in MaxLengths
    /\ word_separator' \in Separators
    /\ stop_words' = StopWords
    /\ <<max_length', word_separator'>> # <<max_length, word_separator>>
    /\ UNCHANGED <<now, pc, ret, memo, fs>>

NextDet == GenerateSlugLogged \/ GenerateUniqueSlugBetween \/ Return \/ Tick \/ NewGenerator

SpecDet == Init /\ [][NextDet]_vars

(***************************************************************************)
(* State machine of the validator: validate_markdown_file is called on     *)
(* files of a repository; ret holds the last call and its outcome.         *)
(***************************************************************************)
MaxLines == 4

MaxFmLines == 2

UpperUlid == <<"0","1","A","R","Z","3","N","D","E","K","T","S","V","4","R","R","F","F","Q","6","9","G","5","F","A","V">>

LowerUlid == <<"0","1","a","r","z","3","n","d","e","k","t","s","v","4","r","r","f","f","q","6","9","g","5","f","a","v">>

DigitUlid == <<"1","2","3","4","5","6","7","8","9","0","1","2","3","4","5","6","7","8","9","0","1","2","3","4","5","6">>

NotUlid == <<"n","o","t","-","a","-","u","l","i","d">>

\* a stem ending in U+212A KELVIN SIGN
KelvinUlid == SubSeq(UpperUlid, 1, 25) \o <<"U+212A">>

Stems == {UpperUlid, LowerUlid, DigitUlid, NotUlid, KelvinUlid}

IdLine(text) == IdKey \o text

\* contents made of delimiter lines, blank lines, an entry and a word
StructLines(stem) == {DocumentMarker, <<>>, IdLine(stem), WordLine}

\* the lines of a front-matter block
FmLines(stem) ==
    {<<>>, IdLine(stem), IdLine(UpperUlid), TitleLine, BadDateLine, WordLine,
     ItemLine, OpenFlowLine, EmptyMapLine, NumberLine}

Contents(stem) ==
    (StrUpTo(StructLines(stem), MaxLines) \ {<<>>})
    \cup {<<DocumentMarker>> \o fm \o <<DocumentMarker>> \o body :
            fm \in StrUpTo(FmLines(stem), MaxFmLines), body \in {<<>>, <<WordLine>>}}

Schema(well_formed, type_object, required_id, id_string) ==
    [well_formed |-> well_formed, type_object |-> type_object,
     required_id |-> required_id, id_string |-> id_string]

Schemas ==
    {Schema(TRUE, FALSE, FALSE, FALSE), Schema(TRUE, TRUE, FALSE, FALSE),
     Schema(TRUE, TRUE, TRUE, TRUE), Schema(FALSE, FALSE, FALSE, FALSE)}

File(stem, readable, content) == [stem |-> stem, readable |-> readable, content |-> content]

InitValidator ==
    /\ max_length = DefaultMaxLength
    /\ word_separator = DefaultWordSeparator
    /\ stop_words = StopWords
    /\ now = StartTime
    /\ pc = "idle"
    /\ ret = NoCall
    /\ memo = NoCall
    /\ fs = [p \in {<<>>} |-> [kind |-> "dir", data |-> <<>>]]

ValidateCall(file, schema, importable) ==
    /\ pc = "idle"
    /\ ret' = [op |-> "validate_markdown_file", file |-> file, schema |-> schema,
               importable |-> importable,
               value |-> validate_markdown_file(file, schema, importable)]
    /\ pc' = "returned"

\* a call on a readable file with the dependencies installed
Validate ==
    /\ pc = "idle"
    /\ \E stem \in Stems, schema \in Schemas :
         \E content \in Contents(stem) :
             ValidateCall(File(stem, TRUE, content), schema, TRUE)
    /\ UNCHANGED <<max_length, word_separator, stop_words, now, memo, fs>>

\* a call on a file read_text fails on
ValidateUnreadable ==
    /\ pc = "idle"
    /\ \E stem \in Stems, schema \in Schemas :
         ValidateCall(File(stem, FALSE, <<<<>>>>), schema, TRUE)
    /\ UNCHANGED <<max_length, word_separator, stop_words, now, memo, fs>>

\* a call where jsonschema or yaml cannot be imported
ValidateWithoutDependencies ==
    /\ pc = "idle"
    /\ \E stem \in Stems, schema \in Schemas, readable \in BOOLEAN :
         ValidateCall(File(stem, readable, <<DocumentMarker, IdLine(stem), DocumentMarker>>),
                      schema, FALSE)
    /\ UNCHANGED <<max_length, word_separator, stop_words, now, memo, fs>>

NextValidate == Validate \/ ValidateUnreadable \/ ValidateWithoutDependencies \/ Return

SpecValidate == InitValidator /\ [][NextValidate]_vars

(***************************************************************************)
(* Command line interface (src/snippets/cli/main.py; cli/init.py,          *)
(* cli/clean.py and cli/add.py hold the same code).                        *)
(*                                                                         *)
(* A file system is a function from the paths that exist to nodes; a path  *)
(* is the sequence of its names from the root, a name a str.               *)
(***************************************************************************)
Dir == [kind |-> "dir", data |-> <<>>]

RegularFile(data) == [kind |-> "file", data |-> data]

\* os.path.exists(path)
exists(f, path) == path \in DOMAIN f

\* os.path.join(path, name)
path_join(path, name) == Append(path, name)

\* os.path.dirname(path); the root is its own parent
dirname(path) == IF path = <<>> THEN <<>> ELSE SubSeq(path, 1, Len(path) - 1)

IsUnder(path, top) == Len(top) <= Len(path) /\ SubSeq(path, 1, Len(top)) = top

Put(f, path, node) == [p \in DOMAIN f \cup {path} |-> IF p = path THEN node ELSE f[p]]

\* os.makedirs(path)
makedirs(f, path) ==
    [p \in DOMAIN f \cup {SubSeq(path, 1, k) : k \in 0..Len(path)} |->
        IF p \in DOMAIN f THEN f[p] ELSE Dir]

\* os.remove(path)
remove(f, path) == [p \in DOMAIN f \ {path} |-> f[p]]

\* shutil.rmtree(path)
rmtree(f, path) == [p \in {q \in DOMAIN f : ~IsUnder(q, path)} |-> f[p]]

\* the names the commands use
DotGit == <<".", "g", "i", "t">>

SnippetsToml == <<"s", "n", "i", "p", "p", "e", "t", "s", ".", "t", "o", "m", "l">>

SnippetsSchema == <<"s", "n", "i", "p", "p", "e", "t", "s", "-", "s", "c", "h", "e", "m", "a", ".", "j", "s", "o", "n">>

SnippetsDir == <<"s", "n", "i", "p", "p", "e", "t", "s">>

ScriptsDir == <<"s", "c", "r", "i", "p", "t", "s">>

ValidatorScript == <<"s", "n", "i", "p", "p", "e", "t", "s", "-", "v", "a", "l", "i", "d", "a", "t", "o", "r", ".", "p", "y">>

PrecommitConfig == <<".", "p", "r", "e", "-", "c", "o", "m", "m", "i", "t", "-", "c", "o", "n", "f", "i", "g", ".", "y", "a", "m", "l">>

\* a command in progress: the file system so far and how the command stands
\* ("running", "exit" for typer.Exit(1), or the exception that leaves it)
Running(f) == [fs |-> f, status |-> "running"]

Exit1(f) == [fs |-> f, status |-> "exit"]

Crash(f, exception) == [fs |-> f, status |-> exception]

\* the process exit code: 0 when the command returns, 1 for typer.Exit(1) and
\* for an exception that leaves the command
exit_code(run) == IF run.status = "running" THEN 0 ELSE 1

\* open(path, "w") and write: the directory of path must exist
write_file(f, path, data) ==
    IF ~exists(f, dirname(path)) THEN Crash(f, "FileNotFoundError")
    ELSE IF f[dirname(path)].kind # "dir" THEN Crash(f, "NotADirectoryError")
    ELSE Running(Put(f, path, RegularFile(data)))

\* SNIPPETS_TOML_CONTENT.format(snippets_dir=snippets_dir)
snippets_toml_content(snippets_dir) == [project_dir |-> snippets_dir, schema |-> SnippetsSchema]

\* the packaged files of snippets.assets
SchemaAsset == [asset |-> SnippetsSchema]

ValidatorAsset == [asset |-> ValidatorScript]

\* ensure_git_repo that also accepts .git in the parent directory
ensure_git_repo_parent(f, repo) ==
    IF ~exists(f, path_join(repo, DotGit)) /\ ~exists(f, path_join(dirname(repo), DotGit))
    THEN Exit1(f)
    ELSE Running(f)

ensure_git_repo(f, repo) ==
    IF ~exists(f, path_join(repo, DotGit)) THEN Exit1(f) ELSE Running(f)

create_snippets_toml(f, repo, snippets_dir) ==
    IF ~exists(f, path_join(repo, SnippetsToml))
    THEN write_file(f, path_join(repo, SnippetsToml), snippets_toml_content(snippets_dir))
    ELSE Running(f)

create_snippets_schema(f, repo) ==
    IF ~exists(f, path_join(repo, SnippetsSchema))
    THEN write_file(f, path_join(repo, SnippetsSchema), SchemaAsset)
    ELSE Exit1(f)

create_snippets_directory(f, snippets_dir) ==
    IF ~exists(f, snippets_dir) THEN Running(makedirs(f, snippets_dir)) ELSE Running(f)

\* .pre-commit-config.yaml: the file holds a YAML document or text that is
\* not YAML.  A document is a mapping (with or without a repos list), a list
\* or nothing; a repos entry has a repo name, a rev ("" for none) and may have
\* a hooks list; a hook is a mapping with an id.
SnippetsHook ==
    [id |-> "snippets-validator", name |-> "snippets-validator",
     entry |-> "python scripts/snippets-validator.py", language |-> "system",
     files |-> "^snippets/.*\\.md$", pass_filenames |-> TRUE]

Hook(id) == [id |-> id]

RepoEntry(repo, rev, has_hooks, hooks) ==
    [repo |-> repo, rev |-> rev, has_hooks |-> has_hooks, hooks |-> hooks]

Mapping(has_repos, repos) == [tag |-> "mapping", has_repos |-> has_repos, repos |-> repos]

EmptyDocument == [tag |-> "none", has_repos |-> FALSE, repos |-> <<>>]

ListDocument == [tag |-> "list", has_repos |-> FALSE, repos |-> <<>>]

Yaml(doc) == [valid |-> TRUE, doc |-> doc]

NotYaml == [valid |-> FALSE, doc |-> EmptyDocument]

\* precommit_content: the file written when there is none
precommit_content ==
    Yaml(Mapping(TRUE,
        << RepoEntry("https://github.com/pre-commit/pre-commit-hooks", "v4.5.0", TRUE,
                     <<Hook("trailing-whitespace"), Hook("end-of-file-fixer")>>),
           RepoEntry("local", "", TRUE, <<SnippetsHook>>) >>))

\* the index of the first repos entry named local, 0 for none
first_local(repos) ==
    IF \E i \in 1..Len(repos) : repos[i].repo = "local"
    THEN CHOOSE i \in 1..Len(repos) :
             repos[i].repo = "local" /\ \A j \in 1..(i - 1) : repos[j].repo # "local"
    ELSE 0

\* the update of a loaded config: its repos with a local entry that has a
\* hooks list, and the position of that entry
with_local(config) ==
    LET repos == IF config.has_repos THEN config.repos ELSE <<>>
        found == first_local(repos)
        all == IF found = 0 THEN Append(repos, RepoEntry("local", "", TRUE, <<>>)) ELSE repos
        at == IF found = 0 THEN Len(all) ELSE found
    IN [repos |-> [all EXCEPT ![at] =
                      IF all[at].has_hooks THEN all[at]
                      ELSE RepoEntry(all[at].repo, all[at].rev, TRUE, <<>>)],
        at |-> at]

\* update_precommit_config without the test of hook_exists: the hook is
\* appended on every init
update_precommit_config_always_append(f, repo) ==
    LET precommit_config_path == path_join(repo, PrecommitConfig)
        loaded == f[precommit_config_path].data
        config == IF loaded.doc.tag = "none" THEN Mapping(FALSE, <<>>) ELSE loaded.doc
        local == with_local(config)
        hooks == local.repos[local.at].hooks
    IN IF ~exists(f, precommit_config_path)
       THEN write_file(f, precommit_config_path, precommit_content)
       ELSE IF ~loaded.valid THEN Running(f)
       ELSE IF config.tag = "list" THEN Crash(f, "TypeError")
       ELSE write_file(f, precommit_config_path,
                Yaml(Mapping(TRUE,
                    [local.repos EXCEPT ![local.at].hooks = Append(hooks, SnippetsHook)])))

\* the part of create_precommit_setup after the validator script: create or
\* update .pre-commit-config.yaml
update_precommit_config(f, repo) ==
    LET precommit_config_path == path_join(repo, PrecommitConfig)
        loaded == f[precommit_config_path].data
        config == IF loaded.doc.tag = "none" THEN Mapping(FALSE, <<>>) ELSE loaded.doc
        local == with_local(config)
        hooks == local.repos[local.at].hooks
        hook_exists == \E i \in 1..Len(hooks) : hooks[i].id = "snippets-validator"
    IN IF ~exists(f, precommit_config_path)
       THEN write_file(f, precommit_config_path, precommit_content)
       ELSE IF ~loaded.valid THEN Running(f)
       ELSE IF config.tag = "list" THEN Crash(f, "TypeError")
       ELSE IF hook_exists THEN Running(f)
       ELSE write_file(f, precommit_config_path,
                Yaml(Mapping(TRUE,
                    [local.repos EXCEPT ![local.at].hooks = Append(hooks, SnippetsHook)])))

create_validator_script(f, scripts_dir) ==
    IF ~exists(f, path_join(scripts_dir, ValidatorScript))
    THEN write_file(f, path_join(scripts_dir, ValidatorScript), ValidatorAsset)
    ELSE Running(f)

\* create_precommit_setup that reads .pre-commit-config.yaml first, so that
\* its return on invalid YAML skips the validator script
create_precommit_setup_config_first(f, repo, scripts_dir) ==
    LET r1 == IF ~exists(f, scripts_dir) THEN Running(makedirs(f, scripts_dir)) ELSE Running(f)
        r2 == IF r1.status = "running" THEN create_validator_script(r1.fs, scripts_dir) ELSE r1
    IN IF exists(f, path_join(repo, PrecommitConfig))
          /\ ~f[path_join(repo, PrecommitConfig)].data.valid
       THEN r1
       ELSE IF r2.status = "running" THEN update_precommit_config(r2.fs, repo) ELSE r2

create_precommit_setup(f, repo, scripts_dir) ==
    LET r1 == IF ~exists(f, scripts_dir) THEN Running(makedirs(f, scripts_dir)) ELSE Running(f)
        r2 == IF r1.status = "running" THEN create_validator_script(r1.fs, scripts_dir) ELSE r1
    IN IF r2.status = "running" THEN update_precommit_config(r2.fs, repo) ELSE r2

init_snippets(f, repo) ==
    LET snippets_dir == path_join(repo, SnippetsDir)
        r1 == ensure_git_repo(f, repo)
        r2 == IF r1.status = "running" THEN create_snippets_toml(r1.fs, repo, snippets_dir) ELSE r1
        r3 == IF r2.status = "running" THEN create_snippets_schema(r2.fs, repo) ELSE r2
        r4 == IF r3.status = "running" THEN create_snippets_directory(r3.fs, snippets_dir) ELSE r3
    IN IF r4.status = "running" THEN create_precommit_setup(r4.fs, repo, path_join(repo, ScriptsDir)) ELSE r4

\* the init command
init(f, repo) == IF ~exists(f, repo) THEN Exit1(f) ELSE init_snippets(f, repo)

\* one removal step of clean: remove the artifact or exit
clean_step(f, path, tree) ==
    IF exists(f, path) THEN Running(IF tree THEN rmtree(f, path) ELSE remove(f, path))
    ELSE Exit1(f)

\* clean that removes the scripts directory with the validator script
clean_scripts_dir(f, repo) ==
    IF ~exists(f, repo) THEN Exit1(f)
    ELSE LET r1 == clean_step(f, path_join(repo, SnippetsSchema), FALSE)
             r2 == IF r1.status = "running" THEN clean_step(r1.fs, path_join(repo, SnippetsToml), FALSE) ELSE r1
             r3 == IF r2.status = "running" THEN clean_step(r2.fs, path_join(repo, SnippetsDir), TRUE) ELSE r2
         IN IF r3.status = "running" THEN clean_step(r3.fs, path_join(repo, ScriptsDir), TRUE) ELSE r3

\* the clean command
clean(f, repo) ==
    IF ~exists(f, repo) THEN Exit1(f)
    ELSE LET r1 == clean_step(f, path_join(repo, SnippetsSchema), FALSE)
             r2 == IF r1.status = "running" THEN clean_step(r1.fs, path_join(repo, SnippetsToml), FALSE) ELSE r1
             r3 == IF r2.status = "running" THEN clean_step(r2.fs, path_join(repo, SnippetsDir), TRUE) ELSE r2
         IN IF r3.status = "running" THEN clean_step(r3.fs, path_join(path_join(repo, ScriptsDir), ValidatorScript), FALSE) ELSE r3

\* s.split(sep) for a non-empty separator
RECURSIVE split_on(_, _, _)
split_on(s, sep, part) ==
    IF s = <<>> THEN <<part>>
    ELSE IF startswith(s, sep)
         THEN <<part>> \o split_on(SubSeq(s, Len(sep) + 1, Len(s)), sep, <<>>)
         ELSE split_on(Tail(s), sep, Append(part, Head(s)))

str_split(s, sep) == split_on(s, sep, <<>>)

\* s.strip()
str_strip(s) == strip(s, Whitespace)

Newline == <<"\n">>

\* the text of a file read as one str, and the lines of a str
text_of(lines) == join(Newline, lines)

lines_of(text) == str_split(text, Newline)

\* find_git_root without the .git test: repo itself is taken as the git root
find_git_root_unchecked(f, current_path) == [found |-> TRUE, path |-> current_path]

\* find_git_root: the nearest directory from repo upwards, the root excluded,
\* that holds .git
RECURSIVE find_git_root(_, _)
find_git_root(f, current_path) ==
    IF current_path = dirname(current_path) THEN [found |-> FALSE, path |-> <<>>]
    ELSE IF exists(f, path_join(current_path, DotGit))
         THEN [found |-> TRUE, path |-> current_path]
         ELSE find_git_root(f, dirname(current_path))

validate_snippets_setup(f, git_root) ==
    IF ~exists(f, path_join(git_root, SnippetsDir)) THEN Exit1(f) ELSE Running(f)

\* metadata: the value of a key is a str, an int or None; a key may be absent
Value(type, text) == [type |-> type, text |-> text]

Absent == Value("absent", <<>>)

Str(text) == Value("str", text)

Metadata(tag, title, slug) == [tag |-> tag, title |-> title, slug |-> slug]

NoMetadata == Metadata("mapping", Absent, Absent)

\* metadata.get(key, ""), given the value of the key
get_or_empty(value) == IF value.type = "absent" THEN Str(<<>>) ELSE value

\* bool(value)
value_truthy(value) ==
    CASE value.type = "str" -> value.text # <<>>
      [] value.type = "int" -> \E i \in 1..Len(value.text) : value.text[i] # "0"
      [] OTHER -> FALSE

\* f"{value}"
format_value(value) == IF value.type = "null" THEN <<"N","o","n","e">> ELSE value.text

TitleKey == <<"t", "i", "t", "l", "e", ":", " ">>

SlugKey == <<"s", "l", "u", "g", ":", " ">>

\* the value of "key: text" or "key:" in a block mapping
entry_value(line, key) ==
    LET text == str_strip(SubSeq(line, Len(key), Len(line)))
    IN IF text = <<>> THEN Value("null", <<>>) ELSE yaml_scalar(text)

is_metadata_entry(line, key) == line = rstrip(key, Whitespace) \/ startswith(line, key)

last_value(lines, key) ==
    LET entries == SelectSeq(lines, LAMBDA l : is_metadata_entry(l, key))
    IN IF entries = <<>> THEN Absent ELSE entry_value(entries[Len(entries)], key)

\* yaml.safe_load(metadata_str) or {} for the front matter of an edited file
\* whose lines are title and slug entries, a plain word or "["
load_metadata(metadata_str) ==
    LET body == SelectSeq(lines_of(metadata_str), LAMBDA l : ~is_blank_line(l))
    IN IF body = <<>> THEN NoMetadata
       ELSE IF \A i \in 1..Len(body) :
                   is_metadata_entry(body[i], TitleKey) \/ is_metadata_entry(body[i], SlugKey)
       THEN Metadata("mapping", last_value(body, TitleKey), last_value(body, SlugKey))
       ELSE IF body = <<WordLine>> THEN Metadata("str", Absent, Absent)
       ELSE Metadata("YAMLError", Absent, Absent)

\* the temporary file the editor is started on: the metadata as front matter
temp_file_text(metadata) ==
    IF metadata.title.type = "absent" THEN <<>>
    ELSE <<"-", "-", "-">> \o Newline \o TitleKey \o format_value(metadata.title) \o Newline
             \o <<"-", "-", "-">> \o Newline \o Newline

Content(status, content, metadata, temp_files, unlinked) ==
    [status |-> status, content |-> content, metadata |-> metadata,
     temp_files |-> temp_files, unlinked |-> unlinked]

\* get_snippet_content_from_editor: editor.outcome is how subprocess.run ends,
\* editor.saved the text of the temporary file afterwards
get_snippet_content_from_editor(metadata, editor) ==
    IF editor.outcome # "saved" THEN Content("exit", <<>>, metadata, 1, 1)
    ELSE LET content == str_strip(editor.saved)
             parts == str_split(content, <<"-", "-", "-">>)
         IN IF startswith(content, <<"-", "-", "-">>) /\ Len(parts) >= 3
            THEN LET loaded == load_metadata(str_strip(parts[2]))
                 IN IF loaded.tag = "YAMLError"
                    THEN Content("YAMLError", <<>>, NoMetadata, 1, 1)
                    ELSE Content("running", str_strip(parts[3]), loaded, 1, 1)
            ELSE Content("running", content, NoMetadata, 1, 1)

\* get_snippet_content: stdin.tty is os.isatty(0), stdin.piped what
\* sys.stdin.read() returns
get_snippet_content(title, text, stdin, editor) ==
    LET metadata == IF title # <<>> THEN Metadata("mapping", Str(title), Absent) ELSE NoMetadata
    IN IF text # <<>> THEN Content("running", text, metadata, 0, 0)
       ELSE IF ~stdin.tty THEN Content("running", str_strip(stdin.piped), metadata, 0, 0)
       ELSE get_snippet_content_from_editor(metadata, editor)

\* the path the operating system resolves directory/name to
RECURSIVE resolve(_, _)
resolve(directory, names) ==
    IF names = <<>> THEN directory
    ELSE resolve(CASE Head(names) = <<".", ".">> -> dirname(directory)
                   [] Head(names) \in {<<>>, <<".">>} -> directory
                   [] OTHER -> Append(directory, Head(names)),
                 Tail(names))

\* datetime.now().isoformat(), written as the seconds of the clock
isoformat(clock) == str_int(clock)

\* the text create_snippet_file writes, as lines
snippet_text(snippet_id, title, slug, content, clock) ==
    << <<"-", "-", "-">>,
       IdKey \o snippet_id,
       TitleKey \o format_value(title),
       SlugKey \o format_value(slug),
       <<"c", "r", "e", "a", "t", "e", "d", "_", "a", "t", ":", " ">> \o isoformat(clock),
       <<"u", "p", "d", "a", "t", "e", "d", "_", "a", "t", ":", " ">> \o isoformat(clock),
       <<"-", "-", "-">>,
       <<>> >> \o lines_of(content \o Newline)

snippet_path(git_root, snippet_id, slug) ==
    LET snippet_file_name ==
            (IF value_truthy(slug) THEN format_value(slug) ELSE snippet_id) \o <<".", "m", "d">>
    IN resolve(path_join(git_root, SnippetsDir), str_split(snippet_file_name, <<"/">>))

\* create_snippet_file without the test for an existing file
create_snippet_file_overwrite(f, git_root, snippet_id, title, slug, content, clock) ==
    write_file(f, snippet_path(git_root, snippet_id, slug),
               snippet_text(snippet_id, title, slug, content, clock))

create_snippet_file(f, git_root, snippet_id, title, slug, content, clock) ==
    LET snippet_file == snippet_path(git_root, snippet_id, slug)
    IN IF exists(f, snippet_file) THEN Exit1(f)
       ELSE write_file(f, snippet_file, snippet_text(snippet_id, title, slug, content, clock))

\* SlugGenerator()
DefaultGenerator ==
    [max_length |-> DefaultMaxLength, word_separator |-> DefaultWordSeparator,
     stop_words |-> StopWords]

Added(run, temp_files, unlinked) ==
    [fs |-> run.fs, status |-> run.status, temp_files |-> temp_files, unlinked |-> unlinked]

\* the add command
add(f, repo, title, text, stdin, editor, snippet_id, clock) ==
    LET git_root == find_git_root(f, repo)
        got == get_snippet_content(title, text, stdin, editor)
        title1 == get_or_empty(got.metadata.title)
        slug1 == get_or_empty(got.metadata.slug)
        slug2 == IF value_truthy(title1) /\ ~value_truthy(slug1)
                 THEN Str(generate_slug(DefaultGenerator, title1.text, TRUE, <<>>))
                 ELSE slug1
    IN IF ~exists(f, repo) \/ ~git_root.found THEN Added(Exit1(f), 0, 0)
       ELSE IF validate_snippets_setup(f, git_root.path).status # "running"
       THEN Added(Exit1(f), 0, 0)
       ELSE IF got.status # "running"
       THEN Added([fs |-> f, status |-> got.status], got.temp_files, got.unlinked)
       ELSE IF got.metadata.tag # "mapping"
       THEN Added(Crash(f, "AttributeError"), got.temp_files, got.unlinked)
       ELSE IF got.content = <<>> THEN Added(Exit1(f), got.temp_files, got.unlinked)
       ELSE IF value_truthy(title1) /\ ~value_truthy(slug1) /\ title1.type # "str"
       THEN Added(Crash(f, "AttributeError"), got.temp_files, got.unlinked)
       ELSE Added(create_snippet_file(f, git_root.path, snippet_id, title1, slug2,
                                      got.content, clock),
                  got.temp_files, got.unlinked)

(***************************************************************************)
(* main of the validator: the pre-commit hook run over a list of           *)
(* filenames.  A filename is given with the file it names: its path as the *)
(* sequence of its parts, whether it can be read, and its content.         *)
(***************************************************************************)
\* Path(name).stem: the name without its last suffix
path_stem(name) ==
    LET dot == rfind(name, ".")
    IN IF dot > 0 THEN SubSeq(name, 1, dot) ELSE name

\* Path(name).suffix: the last suffix of the name, "" when it has none
path_suffix(name) ==
    LET dot == rfind(name, ".")
    IN IF dot > 0 THEN SubSeq(name, dot + 1, Len(name)) ELSE <<>>

\* "snippets" in filepath.parts and filepath.suffix == ".md"
is_snippet_markdown(path) ==
    /\ \E i \in 1..Len(path) : path[i] = <<"s", "n", "i", "p", "p", "e", "t", "s">>
    /\ path_suffix(path[Len(path)]) = <<".", "m", "d">>

\* load_schema: the schema file is missing, is not JSON, or holds a schema
load_schema(schema_file) ==
    IF schema_file.state = "loaded" THEN Running(schema_file.schema) ELSE Exit1(schema_file.schema)

MainResult(status, code, validated, schema_loaded) ==
    [status |-> status, exit_code |-> code, validated |-> validated,
     schema_loaded |-> schema_loaded]

\* the loop of main over args.filenames: validated holds the paths handed to
\* validate_markdown_file so far
RECURSIVE validate_each(_, _, _, _)
validate_each(filenames, schema, code, validated) ==
    IF filenames = <<>> THEN MainResult("returned", code, validated, TRUE)
    ELSE LET file == Head(filenames)
             errors == validate_markdown_file(
                           File(path_stem(file.path[Len(file.path)]), file.readable, file.content),
                           schema, TRUE)
         IN IF ~is_snippet_markdown(file.path)
            THEN validate_each(Tail(filenames), schema, code, validated)
            ELSE IF errors.raised # "none"
            THEN MainResult(errors.raised, 1, Append(validated, file.path), TRUE)
            ELSE validate_each(Tail(filenames), schema,
                               IF errors.errors # <<>> THEN 1 ELSE code,
                               Append(validated, file.path))

\* main(argv): the value is how main ended, the exit code of the process, and
\* the files it validated
main(filenames, schema_file) ==
    IF filenames = <<>> THEN MainResult("returned", 0, <<>>, FALSE)
    ELSE IF load_schema(schema_file).status # "running"
    THEN MainResult("exit", 1, <<>>, FALSE)
    ELSE validate_each(filenames, load_schema(schema_file).fs, 0, <<>>)

MaxFilenames == 2

FileArgument(path, content) == [path |-> path, readable |-> TRUE, content |-> content]

\* the files pre-commit may pass: a valid snippet, a snippet without front
\* matter in a subdirectory, a snippet whose front matter is a number, a file
\* of snippets/ that is not markdown, a markdown file outside snippets/ and a
\* file named snippets.md
FileArguments ==
    { FileArgument(<< <<"s", "n", "i", "p", "p", "e", "t", "s">>, UpperUlid \o <<".", "m", "d">> >>,
                   <<DocumentMarker, IdLine(UpperUlid), DocumentMarker>>),
      FileArgument(<< <<"s", "n", "i", "p", "p", "e", "t", "s">>, <<"s", "u", "b">>, NotUlid \o <<".", "m", "d">> >>, <<WordLine>>),
      FileArgument(<< <<"s", "n", "i", "p", "p", "e", "t", "s">>, LowerUlid \o <<".", "m", "d">> >>,
                   <<DocumentMarker, NumberLine, DocumentMarker>>),
      FileArgument(<< <<"s", "n", "i", "p", "p", "e", "t", "s">>, <<"n", "o", "t", "e", "s", ".", "t", "x", "t">> >>, <<WordLine>>),
      FileArgument(<< <<"d", "o", "c", "s">>, UpperUlid \o <<".", "m", "d">> >>, <<WordLine>>),
      FileArgument(<< <<"s", "n", "i", "p", "p", "e", "t", "s", ".", "m", "d">> >>, <<WordLine>>) }

\* snippets-schema.json at the repository root
SchemaFiles ==
    { [state |-> "missing", schema |-> Schema(FALSE, FALSE, FALSE, FALSE)],
      [state |-> "invalid", schema |-> Schema(FALSE, FALSE, FALSE, FALSE)],
      [state |-> "loaded", schema |-> Schema(TRUE, FALSE, FALSE, FALSE)],
      [state |-> "loaded", schema |-> Schema(TRUE, TRUE, TRUE, TRUE)] }

\* python scripts/snippets-validator.py <filenames>
Main ==
    /\ pc = "idle"
    /\ \E filenames \in StrUpTo(FileArguments, MaxFilenames), schema_file \in SchemaFiles :
         ret' = [op |-> "main", filenames |-> filenames, schema_file |-> schema_file,
                 value |-> main(filenames, schema_file)]
    /\ pc' = "returned"
    /\ UNCHANGED <<max_length, word_separator, stop_words, now, memo, fs>>

NextMain == Main \/ Return

SpecMain == InitValidator /\ [][NextMain]_vars

(***************************************************************************)
(* State machine of the command line: fs is the file system; ret holds the *)
(* last command, the file system it started from and how it ended.         *)
(***************************************************************************)
MaxSnippetFiles == 2

Root == <<>>

Work == << <<"w">> >>

Repo == << <<"w">>, <<"r">> >>

Missing == << <<"w">>, <<"m", "i", "s", "s", "i", "n", "g">> >>

\* the directories / , /w and /w/r
BaseFs == makedirs([p \in {Root} |-> Dir], Repo)

OtherUlid == <<"0", "1", "B", "X", "5", "Z", "Z", "K", "B", "K", "A", "C", "T", "A", "V", "9", "W", "E", "V", "G", "E", "M", "M", "V", "R", "Z">>

\* str(ulid.ULID())
Ulids == {UpperUlid, OtherUlid}

\* the --repo values: a directory and a path that does not exist
RepoArguments == {Repo, Missing}

AddTitles == { <<>>, <<"t", "1">> }

AddTexts == { <<"x">> }

PipedTexts == { <<>>, <<" ", "x", "\n">>, <<"\n">> }

Tty == [tty |-> TRUE, piped |-> <<>>]

Piped(text) == [tty |-> FALSE, piped |-> text]

NoEditor == [outcome |-> "none", saved |-> <<>>]

Saved(text) == [outcome |-> "saved", saved |-> text]

\* what the user may leave in the temporary file
SavedTexts(template) ==
    { template, template \o <<"x">>, <<>>, <<"x">>,
      text_of(<< <<"-", "-", "-">>, <<"s", "l", "u", "g", ":", " ", "s">>, <<"-", "-", "-">>, <<"x">> >>),
      text_of(<< <<"-", "-", "-">>, <<"t", "i", "t", "l", "e", ":", " ", "t", "1">>, <<"s", "l", "u", "g", ":", " ", ".", ".", "/", "s">>, <<"-", "-", "-">>, <<"x">> >>),
      text_of(<< <<"-", "-", "-">>, <<"t", "i", "t", "l", "e", ":", " ", "t", "1">>, <<"s", "l", "u", "g", ":", " ", "s">>, <<"-", "-", "-">>, <<"x">> >>),
      text_of(<< <<"-", "-", "-">>, <<"t", "i", "t", "l", "e", ":", " ", "4", "2">>, <<"-", "-", "-">>, <<"x">> >>),
      text_of(<< <<"-", "-", "-">>, <<"t", "i", "t", "l", "e", ":">>, <<"-", "-", "-">>, <<"x">>, <<"-", "-", "-">>, <<"y">> >>),
      text_of(<< <<"-", "-", "-">>, WordLine, <<"-", "-", "-">>, <<"x">> >>),
      text_of(<< <<"-", "-", "-">>, OpenFlowLine, <<"-", "-", "-">>, <<"x">> >>),
      text_of(<< <<"-", "-", "-">>, <<"t", "i", "t", "l", "e", ":", " ", "t", "1">>, <<"-", "-", "-">> >>) }

Editors(title) ==
    {[outcome |-> "CalledProcessError", saved |-> <<>>],
     [outcome |-> "FileNotFoundError", saved |-> <<>>]}
    \cup {Saved(text) : text \in
             SavedTexts(temp_file_text(IF title # <<>>
                                       THEN Metadata("mapping", Str(title), Absent)
                                       ELSE NoMetadata))}

\* repositories for add: .git in none or one of / , /w , /w/r and a snippets
\* directory in some of /w , /w/r
AddFileSystems ==
    { LET g == IF git = {} THEN BaseFs
               ELSE makedirs(BaseFs, path_join(CHOOSE d \in git : TRUE, DotGit))
          s1 == IF Work \in snippets THEN makedirs(g, path_join(Work, SnippetsDir)) ELSE g
      IN IF Repo \in snippets THEN makedirs(s1, path_join(Repo, SnippetsDir)) ELSE s1 :
      git \in {{}, {Root}, {Work}, {Repo}}, snippets \in SUBSET {Work, Repo} }

InitAdd ==
    /\ max_length = DefaultMaxLength
    /\ word_separator = DefaultWordSeparator
    /\ stop_words = StopWords
    /\ now = StartTime
    /\ pc = "idle"
    /\ ret = NoCall
    /\ memo = NoCall
    /\ fs \in AddFileSystems

SnippetFiles(f) == {p \in DOMAIN f : f[p].kind = "file"}

AddCall(repo, title, text, stdin, editor, snippet_id) ==
    LET done == add(fs, repo, title, text, stdin, editor, snippet_id, now)
    IN /\ pc = "idle"
       /\ Cardinality(SnippetFiles(done.fs)) <= MaxSnippetFiles
       /\ fs' = done.fs
       /\ ret' = [op |-> "add", repo |-> repo, title |-> title, text |-> text,
                  stdin |-> stdin, editor |-> editor, snippet_id |-> snippet_id,
                  clock |-> now, before |-> fs, status |-> done.status,
                  exit_code |-> exit_code(done), temp_files |-> done.temp_files,
                  unlinked |-> done.unlinked]
       /\ pc' = "returned"

\* add with the text as argument
AddText ==
    /\ pc = "idle"
    /\ \E repo \in RepoArguments, title \in AddTitles, text \in AddTexts,
          snippet_id \in Ulids :
         AddCall(repo, title, text, Tty, NoEditor, snippet_id)
    /\ UNCHANGED <<max_length, word_separator, stop_words, now, memo>>

\* add without text, stdin piped
AddPiped ==
    /\ pc = "idle"
    /\ \E repo \in RepoArguments, title \in AddTitles,
          piped \in PipedTexts, snippet_id \in Ulids :
         AddCall(repo, title, <<>>, Piped(piped), NoEditor, snippet_id)
    /\ UNCHANGED <<max_length, word_separator, stop_words, now, memo>>

\* add without text on a terminal: the editor is started
AddEdited ==
    /\ pc = "idle"
    /\ \E repo \in RepoArguments, title \in AddTitles, snippet_id \in Ulids :
         \E editor \in Editors(title) :
            AddCall(repo, title, <<>>, Tty, editor, snippet_id)
    /\ UNCHANGED <<max_length, word_separator, stop_words, now, memo>>

NextAdd == AddText \/ AddPiped \/ AddEdited \/ Return

SpecAdd == InitAdd /\ [][NextAdd]_vars

\* .pre-commit-config.yaml files a repository may hold before init
OtherRepo == RepoEntry("https://github.com/psf/black", "23.1.0", TRUE, <<Hook("black")>>)

PrecommitConfigs ==
    { NotYaml, Yaml(EmptyDocument), Yaml(ListDocument), Yaml(Mapping(FALSE, <<>>)),
      Yaml(Mapping(TRUE, <<OtherRepo>>)),
      Yaml(Mapping(TRUE, <<RepoEntry("local", "", FALSE, <<>>)>>)),
      Yaml(Mapping(TRUE, <<OtherRepo, RepoEntry("local", "", TRUE, <<Hook("some-other-hook")>>)>>)),
      Yaml(Mapping(TRUE, <<RepoEntry("local", "", TRUE, <<Hook("some-other-hook")>>),
                           RepoEntry("local", "", TRUE, <<SnippetsHook>>)>>)),
      Yaml(Mapping(TRUE, <<RepoEntry("local", "", TRUE, <<SnippetsHook>>)>>)),
      Yaml(Mapping(TRUE, <<RepoEntry("local", "", TRUE, <<Hook("snippets-validator")>>)>>)) }

\* the artifacts of a snippets project in repo, as init leaves them
Artifact(f, repo, name) ==
    CASE name = "snippets.toml" ->
           Put(f, path_join(repo, SnippetsToml),
               RegularFile(snippets_toml_content(path_join(repo, SnippetsDir))))
      [] name = "snippets-schema.json" ->
           Put(f, path_join(repo, SnippetsSchema), RegularFile(SchemaAsset))
      [] name = "snippets" -> makedirs(f, path_join(repo, SnippetsDir))
      [] name = "scripts" -> makedirs(f, path_join(repo, ScriptsDir))
      [] name = "snippets-validator.py" ->
           Put(makedirs(f, path_join(repo, ScriptsDir)),
               path_join(path_join(repo, ScriptsDir), ValidatorScript),
               RegularFile(ValidatorAsset))
      [] OTHER -> f

ArtifactNames ==
    {"snippets.toml", "snippets-schema.json", "snippets", "scripts", "snippets-validator.py"}

RECURSIVE WithArtifacts(_, _, _)
WithArtifacts(f, repo, names) ==
    IF names = {} THEN f
    ELSE LET name == CHOOSE n \in names : TRUE
         IN WithArtifacts(Artifact(f, repo, name), repo, names \ {name})

\* /w/r with .git in it, in its parent /w or nowhere, any of the artifacts,
\* and no .pre-commit-config.yaml or one of PrecommitConfigs
InitFileSystems ==
    { LET g == IF git = {} THEN BaseFs
               ELSE makedirs(BaseFs, path_join(CHOOSE d \in git : TRUE, DotGit))
          a == WithArtifacts(g, Repo, names)
      IN IF config = {} THEN a
         ELSE Put(a, path_join(Repo, PrecommitConfig),
                  RegularFile(CHOOSE c \in config : TRUE)) :
      git \in {{}, {Repo}, {Work}}, names \in SUBSET ArtifactNames,
      config \in {{}} \cup {{c} : c \in PrecommitConfigs} }

InitInit ==
    /\ max_length = DefaultMaxLength
    /\ word_separator = DefaultWordSeparator
    /\ stop_words = StopWords
    /\ now = StartTime
    /\ pc = "idle"
    /\ ret = NoCall
    /\ memo = NoCall
    /\ fs \in InitFileSystems

Command(op, repo, done) ==
    /\ pc = "idle"
    /\ fs' = done.fs
    /\ ret' = [op |-> op, repo |-> repo, before |-> fs, status |-> done.status,
               exit_code |-> exit_code(done)]
    /\ pc' = "returned"

\* snippets init <repo>
InitCommand ==
    /\ pc = "idle"
    /\ \E repo \in RepoArguments : Command("init", repo, init(fs, repo))
    /\ UNCHANGED <<max_length, word_separator, stop_words, now, memo>>

\* snippets clean <repo>
CleanCommand ==
    /\ pc = "idle"
    /\ \E repo \in RepoArguments : Command("clean", repo, clean(fs, repo))
    /\ UNCHANGED <<max_length, word_separator, stop_words, now, memo>>

NextInit == InitCommand \/ CleanCommand \/ Return

SpecInit == InitInit /\ [][NextInit]_vars

\* the same commands with the two commands before the last one kept in memo,
\* the latest first
NoCommand == [op |-> "none", repo |-> <<>>, exit_code |-> 0]

InitHistory ==
    /\ max_length = DefaultMaxLength
    /\ word_separator = DefaultWordSeparator
    /\ stop_words = StopWords
    /\ now = StartTime
    /\ pc = "idle"
    /\ ret = NoCall
    /\ memo = <<NoCommand, NoCommand, NoCommand>>
    /\ fs \in InitFileSystems

Remember(op, repo, done) ==
    memo' = <<[op |-> op, repo |-> repo, exit_code |-> exit_code(done)], memo[1], memo[2]>>

\* snippets init <repo>, remembered
InitCommandHistory ==
    /\ pc = "idle"
    /\ \E repo \in RepoArguments :
           Command("init", repo, init(fs, repo)) /\ Remember("init", repo, init(fs, repo))
    /\ UNCHANGED <<max_length, word_separator, stop_words, now>>

\* snippets clean <repo>, remembered
CleanCommandHistory ==
    /\ pc = "idle"
    /\ \E repo \in RepoArguments :
           Command("clean", repo, clean(fs, repo)) /\ Remember("clean", repo, clean(fs, repo))
    /\ UNCHANGED <<max_length, word_separator, stop_words, now>>

NextHistory == InitCommandHistory \/ CleanCommandHistory \/ Return

SpecHistory == InitHistory /\ [][NextHistory]_vars

(***************************************************************************)
(* Properties of the slug generator                                        *)
(***************************************************************************)
IsSlugCall == pc = "returned" /\ ret.op = "generate_slug"

IsUniqueCall == pc = "returned" /\ ret.op = "generate_unique_slug"

\* s matches ^[a-z0-9]+(c[a-z0-9]+)*$ for the separator c
SlugFormat(s, c) ==
    /\ s # <<>>
    /\ \A i \in 1..Len(s) : s[i] \in AsciiLower \cup AsciiDigit \cup {c}
    /\ s[1] # c /\ s[Len(s)] # c
    /\ \A i \in 1..(Len(s) - 1) : ~(s[i] = c /\ s[i+1] = c)

IsPrefix(p, s) == Len(p) <= Len(s) /\ SubSeq(s, 1, Len(p)) = p

\* the slug of the returned generate_slug call before truncation
RetUntruncated ==
    untruncated_slug(ret.self, ret.title, ret.remove_stop_words, ret.custom_replacements)

\* the returned generate_slug call had words left after filtering
RetHasWords ==
    /\ strip(ret.title, Whitespace) # <<>>
    /\ slug_words(ret.self, ret.title, ret.remove_stop_words, ret.custom_replacements) # <<>>

\* C1: every value generate_slug returns consists of lowercase ASCII letters,
\* digits and the configured separator only, with no leading, trailing or
\* doubled separator.
C1_SlugFormat == IsSlugCall => SlugFormat(ret.value, ret.self.word_separator)

\* C2: the value generate_slug returns is never longer than max_length, the
\* sentinel "untitled" included.
C2_WithinMaxLength == IsSlugCall => Len(ret.value) <= ret.self.max_length

\* C3: generate_slug is idempotent: with default arguments, the slug of a
\* returned slug is that slug.
C3_Idempotent ==
    (IsSlugCall /\ ret.remove_stop_words /\ ret.custom_replacements = <<>>)
        => generate_slug(ret.self, ret.value, TRUE, <<>>) = ret.value

C5_NeverEmpty == IsSlugCall => ret.value # <<>>

\* a title whose words survive filtering but leave nothing after the invalid
\* characters and separators are removed: the last fallback returned the sentinel
C5_Witness ==
    /\ IsSlugCall /\ RetHasWords
    /\ RetUntruncated = <<>>
    /\ ret.value = Untitled

\* the word is dropped by the filtering rules: a single character that is no
\* digit, a stop word when stop words are removed, or a word that is neither
\* alphanumeric nor holds a hyphen or an underscore
Dropped(word, remove_stop_words) ==
    \/ Len(word) = 1 /\ word[1] \notin AsciiDigit
    \/ remove_stop_words /\ str_lower(word) \in StopWords
    \/ /\ \E i \in 1..Len(word) : ~isalnum_char(word[i])
       /\ \A i \in 1..Len(word) : word[i] \notin {"-", "_"}

\* the words of the returned call's title before filtering
RetWords == split(clean_text(apply_replacements(ret.title, ret.custom_replacements)))

\* C6: generate_slug returns exactly "untitled" when the title is empty or
\* all whitespace, and when filtering leaves no word.
C6_Untitled ==
    (IsSlugCall /\ \/ strip(ret.title, Whitespace) = <<>>
                   \/ \A i \in 1..Len(RetWords) : Dropped(RetWords[i], ret.remove_stop_words))
        => ret.value = Untitled

\* a title that is not blank, has words, and loses all of them in filtering
C6_Witness ==
    /\ IsSlugCall
    /\ strip(ret.title, Whitespace) # <<>>
    /\ Len(RetWords) >= 2
    /\ \A i \in 1..Len(RetWords) : Dropped(RetWords[i], ret.remove_stop_words)
    /\ ret.value = Untitled

SameInputs(a, b) ==
    /\ a.self = b.self
    /\ a.title = b.title
    /\ a.remove_stop_words = b.remove_stop_words
    /\ a.custom_replacements = b.custom_replacements

RetBase == generate_slug(ret.self, ret.title, TRUE, <<>>)

\* base + separator + i
Numbered(i) == RetBase \o <<ret.self.word_separator>> \o str_int(i)

\* C8: generate_unique_slug returns base when base is free, and otherwise the
\* candidate base + separator + i for the smallest i in 2..max_attempts+1 whose
\* candidate is free.
C8_SmallestFreeCandidate ==
    IsUniqueCall =>
        /\ RetBase \notin ret.existing_slugs => ret.value = RetBase
        /\ RetBase \in ret.existing_slugs =>
             \A i \in 2..(ret.max_attempts + 1) :
                 (/\ Numbered(i) \notin ret.existing_slugs
                  /\ \A j \in 2..(i - 1) : Numbered(j) \in ret.existing_slugs)
                     => ret.value = Numbered(i)

\* base and the first candidate are taken and the last probe is returned
C8_Witness ==
    /\ IsUniqueCall
    /\ ret.max_attempts >= 2
    /\ RetBase \in ret.existing_slugs
    /\ \A j \in 2..ret.max_attempts : Numbered(j) \in ret.existing_slugs
    /\ ret.value = Numbered(ret.max_attempts + 1)

RetSomeFree ==
    \/ RetBase \notin ret.existing_slugs
    \/ \E i \in 2..(ret.max_attempts + 1) : Numbered(i) \notin ret.existing_slugs

IsValidateCall == pc = "returned" /\ ret.op = "validate_markdown_file"

\* the call got as far as looking at the content
ReadContent == IsValidateCall /\ ret.importable /\ ret.file.readable

RetBlock == extract_frontmatter(ret.file.content)

Texts(errors) == [i \in 1..Len(errors) |-> errors[i].text]

RetLoaded == yaml_safe_load(RetBlock.lines)

\* C10: validate stops at the first structural failure.  For a file without a
\* front-matter block the result is exactly ["No valid YAML frontmatter
\* found"]; for a file whose block the YAML loader cannot parse the result is
\* exactly one error starting "Invalid YAML in frontmatter: "; no schema,
\* filename or identity error is added in either case.
C10_StopsAtStructuralFailure ==
    ReadContent =>
        /\ RetBlock = None =>
             /\ ret.value.raised = "none"
             /\ Texts(ret.value.errors) = <<"No valid YAML frontmatter found">>
        /\ (RetBlock # None /\ RetLoaded.tag \in {"YAMLError", "ValueError"}) =>
             /\ ret.value.raised = "none"
             /\ Texts(ret.value.errors) = <<"Invalid YAML in frontmatter: ">>

\* the call returned a list (no exception left the function)
RetReturned == ReadContent /\ ret.value.raised = "none"

\* front matter was extracted and loaded
RetParsed == RetBlock # None /\ RetLoaded.tag \notin {"YAMLError", "ValueError"}

\* a ULID as the data model defines it: 26 characters of 0-9 A-Z without
\* I, L, O, U, in either case
WellFormedUlid(s) ==
    /\ Len(s) = 26
    /\ \A i \in 1..26 :
         s[i] \in AsciiDigit \/ s[i] \in CrockfordUpper
             \/ \E u \in CrockfordUpper : s[i] = lower(u)

\* the block has id entries and each is written as text
IdWrittenAs(text) ==
    /\ \E i \in 1..Len(RetBlock.lines) : startswith(RetBlock.lines[i], IdKey)
    /\ \A i \in 1..Len(RetBlock.lines) :
         startswith(RetBlock.lines[i], IdKey) => RetBlock.lines[i] = IdLine(text)

HasError(text) == \E i \in 1..Len(ret.value.errors) : ret.value.errors[i].text = text

MissingId == "Missing 'id' field in frontmatter"

Mismatch == "ULID mismatch: filename has '' but frontmatter id is ''"

BadFilename == "Filename '' does not follow <ulid>.md format (invalid ULID)"

\* C11: validate is complete.  For a stem that is a well-formed ULID (digits
\* only and lower case included), a file whose front matter loads as a
\* mapping, satisfies the schema and has its id written as that ULID yields
\* the empty error list.
C11_Complete ==
    (/\ ReadContent
     /\ WellFormedUlid(ret.file.stem)
     /\ RetParsed
     /\ RetLoaded.tag = "mapping"
     /\ IdWrittenAs(ret.file.stem)
     /\ jsonschema_validate(RetLoaded, ret.schema) = "ok")
    => ret.value = Returned(<<>>)

\* C12: validate is sound.  Whenever the empty list is returned, the stem is
\* a well-formed ULID and the front matter has an id entry written as the
\* stem, whatever the schema and also for empty front matter.
C12_Sound ==
    (ReadContent /\ ret.value = Returned(<<>>))
    => /\ WellFormedUlid(ret.file.stem)
       /\ RetParsed
       /\ IdWrittenAs(ret.file.stem)

\* C13: validate never raises.  For every content, stem and schema a list of
\* errors is returned, also when the front matter is a scalar, a list, a
\* number or empty.
C13_NeverRaises == IsValidateCall => ret.value.raised = "none"

\* C14: identity check.  When a list is returned for front matter that
\* loaded as a mapping: without an id key the missing-id error is reported;
\* with an id that is not the stem as a string the mismatch error is
\* reported, naming the stem and the id; never both errors.
C14_IdentityCheck ==
    (RetReturned /\ RetParsed /\ RetLoaded.tag = "mapping")
    => /\ "id" \notin RetLoaded.keys => HasError(MissingId)
       /\ ("id" \in RetLoaded.keys
             /\ ~(RetLoaded.id.type = "str" /\ RetLoaded.id.text = ret.file.stem))
          => \E i \in 1..Len(ret.value.errors) :
                 ret.value.errors[i] = Error(Mismatch, <<ret.file.stem, RetLoaded.id.text>>)
       /\ ~(HasError(MissingId) /\ HasError(Mismatch))

\* C15: filename-format check.  When a list is returned, it holds the
\* filename-format error exactly if front matter was parsed and the stem is
\* not a well-formed ULID.
C15_FilenameFormat ==
    RetReturned => (HasError(BadFilename) <=> (RetParsed /\ ~WellFormedUlid(ret.file.stem)))


(***************************************************************************)
(* Properties of the command line                                          *)
(***************************************************************************)

IsAdd == pc = "returned" /\ ret.op = "add"

AddSucceeded == IsAdd /\ ret.exit_code = 0

\* the paths that exist after the last command and did not exist before it
Created == DOMAIN fs \ DOMAIN ret.before

CreatedFiles == {p \in Created : fs[p].kind = "file"}

\* the values written after "id: " in the front matter of a file
FrontMatterIds(lines) ==
    LET block == extract_frontmatter(lines)
    IN { SubSeq(block.lines[i], Len(IdKey) + 1, Len(block.lines[i])) :
           i \in {j \in 1..Len(block.lines) : startswith(block.lines[j], IdKey)} }

\* C16: every file a successful add persists has a stem that the validator's
\* filename check accepts and that is the id of its front matter, itself a
\* well-formed ULID, with or without --title.
C16_AddedFileIdentity ==
    AddSucceeded =>
        \A p \in CreatedFiles :
            /\ validate_ulid_format(path_stem(p[Len(p)]))
            /\ FrontMatterIds(fs[p].data) = {path_stem(p[Len(p)])}
            /\ \A id \in FrontMatterIds(fs[p].data) : WellFormedUlid(id)

\* what the last add read as content and metadata
AddContent == get_snippet_content(ret.title, ret.text, ret.stdin, ret.editor)

\* the slug of the last add: the one of the metadata, else the one generated
\* from a non-empty title, else none
AddSlug ==
    LET title == get_or_empty(AddContent.metadata.title)
        slug == get_or_empty(AddContent.metadata.slug)
    IN IF value_truthy(slug) THEN format_value(slug)
       ELSE IF value_truthy(title)
            THEN generate_slug(DefaultGenerator, title.text, TRUE, <<>>)
            ELSE <<>>

AddGitRoot == find_git_root(ret.before, ret.repo).path

\* <git root>/snippets/<name>.md
SnippetFile(name) ==
    path_join(path_join(AddGitRoot, SnippetsDir), name \o <<".", "m", "d">>)

\* the file starts with a front matter block that holds "id: <ulid>", and the
\* text follows the block
IsSnippetOf(lines, snippet_id, text) ==
    LET block == extract_frontmatter(lines)
    IN /\ lines[1] = <<"-", "-", "-">>
       /\ block.found
       /\ \E i \in 1..Len(block.lines) : block.lines[i] = IdKey \o snippet_id
       /\ str_strip(text_of(SubSeq(lines, Len(block.lines) + 3, Len(lines)))) = text

AddPipedUntitled == IsAdd /\ ret.text = <<>> /\ ~ret.stdin.tty /\ ret.title = <<>>

\* C17: a successful add creates exactly one path, a file under
\* <git root>/snippets named <slug>.md when a slug was produced and <ulid>.md
\* otherwise, starting with a front matter block that holds "id: <ulid>" and
\* followed by the text; with piped content and no title the file is
\* <ulid>.md and no temporary file is created or deleted.
C17_OneNewSnippetFile ==
    AddSucceeded =>
        /\ Created = {SnippetFile(IF AddSlug # <<>> THEN AddSlug ELSE ret.snippet_id)}
        /\ \A p \in Created :
              /\ fs[p].kind = "file"
              /\ IsUnder(p, path_join(AddGitRoot, SnippetsDir))
              /\ IsSnippetOf(fs[p].data, ret.snippet_id, AddContent.content)
        /\ AddPipedUntitled =>
              /\ Created = {SnippetFile(ret.snippet_id)}
              /\ ret.temp_files = 0
              /\ ret.unlinked = 0

\* the directories from path upwards, the filesystem root excluded
Upwards(path) == {SubSeq(path, 1, k) : k \in 1..Len(path)}

\* the directories from path upwards that hold .git
GitDirs(f, path) == {d \in Upwards(path) : path_join(d, DotGit) \in DOMAIN f}

\* the nearest of them has no snippets directory
NoSnippetsDir(f, path) ==
    \E g \in GitDirs(f, path) :
        /\ \A d \in GitDirs(f, path) : Len(d) <= Len(g)
        /\ path_join(g, SnippetsDir) \notin DOMAIN f

\* the content given as argument, piped or saved in the editor is empty
EmptyContent == AddContent.status = "running" /\ AddContent.content = <<>>

\* C18: add exits with code 1 and creates no file when the --repo path does
\* not exist, when no directory from repo upwards (the filesystem root
\* excluded) holds .git, when the git root has no snippets directory, or when
\* the content is empty.
C18_AddRefuses ==
    (/\ IsAdd
     /\ \/ ret.repo \notin DOMAIN ret.before
        \/ GitDirs(ret.before, ret.repo) = {}
        \/ NoSnippetsDir(ret.before, ret.repo)
        \/ EmptyContent)
    => ret.exit_code = 1 /\ CreatedFiles = {}

\* add in an existing directory with a snippets directory, where only the
\* filesystem root holds .git
C18_Witness ==
    /\ IsAdd
    /\ ret.repo \in DOMAIN ret.before
    /\ path_join(Root, DotGit) \in DOMAIN ret.before
    /\ path_join(ret.repo, SnippetsDir) \in DOMAIN ret.before
    /\ GitDirs(ret.before, ret.repo) = {}
    /\ ret.text # <<>>
    /\ ret.exit_code = 1
    /\ fs = ret.before

IsInit == pc = "returned" /\ ret.op = "init"

\* the five artifacts of a snippets project in repo
ArtifactPaths(repo) ==
    { path_join(repo, SnippetsToml), path_join(repo, SnippetsSchema),
      path_join(repo, SnippetsDir),
      path_join(path_join(repo, ScriptsDir), ValidatorScript),
      path_join(repo, PrecommitConfig) }

\* C19: init exits with code 1 when the target directory does not exist or
\* does not itself hold .git, and then creates none of snippets.toml,
\* snippets-schema.json, snippets/, scripts/snippets-validator.py and
\* .pre-commit-config.yaml.
C19_InitRefuses ==
    (/\ IsInit
     /\ \/ ret.repo \notin DOMAIN ret.before
        \/ path_join(ret.repo, DotGit) \notin DOMAIN ret.before)
    => ret.exit_code = 1 /\ Created \cap ArtifactPaths(ret.repo) = {}

\* init in a directory without .git whose parent holds .git, with none of
\* the artifacts there before
C19_Witness ==
    /\ IsInit
    /\ ret.repo \in DOMAIN ret.before
    /\ path_join(ret.repo, DotGit) \notin DOMAIN ret.before
    /\ path_join(dirname(ret.repo), DotGit) \in DOMAIN ret.before
    /\ DOMAIN ret.before \cap ArtifactPaths(ret.repo) = {}
    /\ ret.exit_code = 1
    /\ fs = ret.before

InitSucceeded == IsInit /\ ret.exit_code = 0

\* C20: when init returns successfully, snippets.toml, snippets-schema.json,
\* snippets/, scripts/snippets-validator.py and .pre-commit-config.yaml all
\* exist afterwards, whether or not a .pre-commit-config.yaml existed before
\* and also when the existing one is not valid YAML.
C20_InitCreatesAll == InitSucceeded => ArtifactPaths(ret.repo) \subseteq DOMAIN fs

\* a successful init in a repository whose .pre-commit-config.yaml is not
\* valid YAML and that had no validator script
C20_Witness ==
    /\ InitSucceeded
    /\ path_join(ret.repo, PrecommitConfig) \in DOMAIN ret.before
    /\ ret.before[path_join(ret.repo, PrecommitConfig)].data = NotYaml
    /\ path_join(path_join(ret.repo, ScriptsDir), ValidatorScript) \notin DOMAIN ret.before
    /\ ArtifactPaths(ret.repo) \subseteq DOMAIN fs

\* the .pre-commit-config.yaml of the repository of the last command, before
\* and after it
ConfigPath == path_join(ret.repo, PrecommitConfig)

ConfigBefore == ret.before[ConfigPath].data

ConfigAfter == fs[ConfigPath].data

\* the repos entries of a loaded document
ReposOf(doc) == IF doc.tag = "mapping" /\ doc.has_repos THEN doc.repos ELSE <<>>

HooksOf(entry) == IF entry.has_hooks THEN entry.hooks ELSE <<>>

\* every repo entry of before is in after under the same name and rev, with
\* every hook it had
EntriesKept(before, after) ==
    \A i \in 1..Len(ReposOf(before)) :
        \E j \in 1..Len(ReposOf(after)) :
            /\ ReposOf(after)[j].repo = ReposOf(before)[i].repo
            /\ ReposOf(after)[j].rev = ReposOf(before)[i].rev
            /\ \A h \in 1..Len(HooksOf(ReposOf(before)[i])) :
                  \E k \in 1..Len(HooksOf(ReposOf(after)[j])) :
                      HooksOf(ReposOf(after)[j])[k] = HooksOf(ReposOf(before)[i])[h]

IsSnippetsHook(hook) ==
    /\ DOMAIN hook = {"id", "name", "entry", "language", "files", "pass_filenames"}
    /\ hook.id = "snippets-validator"
    /\ hook.name = "snippets-validator"
    /\ hook.entry = "python scripts/snippets-validator.py"
    /\ hook.language = "system"
    /\ hook.files = "^snippets/.*\\.md$"
    /\ hook.pass_filenames = TRUE

\* the first repos entry named local holds the snippets-validator hook
FirstLocalHasHook(doc) ==
    \E i \in 1..Len(ReposOf(doc)) :
        /\ ReposOf(doc)[i].repo = "local"
        /\ \A j \in 1..(i - 1) : ReposOf(doc)[j].repo # "local"
        /\ \E k \in 1..Len(HooksOf(ReposOf(doc)[i])) : IsSnippetsHook(HooksOf(ReposOf(doc)[i])[k])

\* init runs up to the pre-commit setup: the directory is a git repository
\* without snippets-schema.json
InitRuns ==
    /\ IsInit
    /\ path_join(ret.repo, DotGit) \in DOMAIN ret.before
    /\ path_join(ret.repo, SnippetsSchema) \notin DOMAIN ret.before

HadParseableConfig == ConfigPath \in DOMAIN ret.before /\ ConfigBefore.valid

\* C21: when init runs on a repository that has a parseable
\* .pre-commit-config.yaml, every repo entry and every hook of it is still
\* there afterwards, and the first repo entry named local (appended when
\* there was none) holds the hook with id and name snippets-validator, entry
\* "python scripts/snippets-validator.py", language system, files
\* "^snippets/.*\.md$" and pass_filenames true.
C21_HookAddedEntriesKept ==
    (InitRuns /\ HadParseableConfig) =>
        /\ ConfigPath \in DOMAIN fs
        /\ ConfigAfter.valid
        /\ EntriesKept(ConfigBefore.doc, ConfigAfter.doc)
        /\ FirstLocalHasHook(ConfigAfter.doc)

\* the parsed front matter of the validated file violates the schema
SchemaViolated ==
    /\ ReadContent /\ RetParsed
    /\ jsonschema_validate(RetLoaded, ret.schema) = "ValidationError"

\* the errors the same file gets under a schema that accepts everything
WithoutSchemaErrors ==
    validate_markdown_file(ret.file, Schema(TRUE, FALSE, FALSE, FALSE), TRUE).errors

\* C23: a schema validation failure does not stop validate.  The result is a
\* list that starts with the "Schema validation failed: ..." error, followed
\* by the filename-format error exactly when the stem fails that check and
\* then by the identity error, as the file would get them without the schema
\* failure.
C23_ContinuesAfterSchemaFailure ==
    SchemaViolated =>
        /\ ret.value.raised = "none"
        /\ ret.value.errors # <<>>
        /\ ret.value.errors[1].text = "Schema validation failed: "
        /\ Tail(ret.value.errors) = WithoutSchemaErrors
        /\ (\E i \in 2..Len(ret.value.errors) : ret.value.errors[i].text = BadFilename)
              <=> ~validate_ulid_format(ret.file.stem)
        /\ \A i \in 2..Len(ret.value.errors) :
              ret.value.errors[i].text = BadFilename => i = 2

\* the standalone --- lines of the read content from its third line on
LaterDashLines ==
    {c \in 3..Len(ret.file.content) : is_dash_line(ret.file.content[c])}

\* content that starts with a --- line followed by a line that is not blank
\* and holds two or more later standalone --- lines
TwoClosingCandidates ==
    /\ ReadContent
    /\ Len(ret.file.content) >= 2
    /\ is_dash_line(ret.file.content[1])
    /\ ~is_blank_line(ret.file.content[2])
    /\ Cardinality(LaterDashLines) >= 2

\* C22 as stated: the block is closed by the last standalone --- line, the
\* front matter being everything between the opening line and that line.
C22_ClosesAtLast ==
    TwoClosingCandidates =>
        /\ RetBlock.found
        /\ \E c \in LaterDashLines :
              /\ \A d \in LaterDashLines : d <= c
              /\ RetBlock.lines = SubSeq(ret.file.content, 2, c - 1)

\* C22 amended: the block is closed by the first standalone --- line from the
\* third line on, the front matter being everything between the opening line
\* and that line.
C22_ClosesAtFirst ==
    TwoClosingCandidates =>
        /\ RetBlock.found
        /\ \E c \in LaterDashLines :
              /\ \A d \in LaterDashLines : c <= d
              /\ RetBlock.lines = SubSeq(ret.file.content, 2, c - 1)

\* a validated file whose block is followed by a second standalone --- line
C22_Witness ==
    /\ TwoClosingCandidates
    /\ RetBlock.found
    /\ Len(RetBlock.lines) = 1
    /\ Len(ret.file.content) = 4
    /\ is_dash_line(ret.file.content[4])

\* the lengths p <= max_length of the prefixes of the untruncated slug that
\* are followed by a separator
SeparatorCuts ==
    {p \in 1..ret.self.max_length : RetUntruncated[p + 1] = ret.self.word_separator}

\* C24: when the cleaned slug is longer than max_length, generate_slug cuts it
\* at the last separator at or before the limit, so that leading whole words
\* that fill max_length characters exactly and are followed by a separator
\* are all kept; when there is no such separator the result is the first
\* max_length characters.
C24_CutAtLastSeparator ==
    (IsSlugCall /\ RetHasWords /\ Len(RetUntruncated) > ret.self.max_length)
        => IF SeparatorCuts # {}
           THEN \E p \in SeparatorCuts :
                   /\ \A q \in SeparatorCuts : q <= p
                   /\ ret.value = SubSeq(RetUntruncated, 1, p)
           ELSE ret.value = SubSeq(RetUntruncated, 1, ret.self.max_length)

\* C25: the value generate_unique_slug returns is a slug: it is never longer
\* than max_length and has the slug format, also when a number or the
\* timestamp has been appended to the base slug.
C25_UniqueSlugIsSlug ==
    IsUniqueCall =>
        /\ Len(ret.value) <= ret.self.max_length
        /\ SlugFormat(ret.value, ret.self.word_separator)

\* every file and directory that existed before the last command is still
\* there with the same content
ExistingKept == \A p \in DOMAIN ret.before : p \in DOMAIN fs /\ fs[p] = ret.before[p]

\* the last add read content and metadata that let it go on to the file
AddHasContent ==
    /\ IsAdd
    /\ AddContent.status = "running"
    /\ AddContent.metadata.tag = "mapping"
    /\ AddContent.content # <<>>

\* the file the last add is to write: <slug>.md or <ulid>.md under snippets/
AddTarget ==
    resolve(path_join(AddGitRoot, SnippetsDir),
            str_split((IF AddSlug # <<>> THEN AddSlug ELSE ret.snippet_id) \o <<".", "m", "d">>,
                      <<"/">>))

\* the title the last add writes into its file
AddTitle == get_or_empty(AddContent.metadata.title)

\* an earlier add wrote a file with the title of the last add
TitleUsedBefore ==
    /\ AddHasContent
    /\ value_truthy(AddTitle)
    /\ \E p \in DOMAIN ret.before :
          /\ ret.before[p].kind = "file"
          /\ \E i \in 1..Len(ret.before[p].data) :
                ret.before[p].data[i] = TitleKey \o format_value(AddTitle)

\* add leaves every existing path as it is, fails without any change when
\* its target exists, and a successful add creates a path
NeverOverwrites ==
    IsAdd =>
        /\ ExistingKept
        /\ (AddHasContent /\ AddTarget \in DOMAIN ret.before)
              => ret.exit_code = 1 /\ fs = ret.before
        /\ ret.exit_code = 0 => Created # {}

\* C26 as stated: add never overwrites an existing snippet.  When the target
\* file exists add exits with code 1 and the file is unchanged, two
\* successful adds never write the same path, and an add with the title of
\* an earlier successful add fails.
C26_SameTitleFails ==
    /\ NeverOverwrites
    /\ TitleUsedBefore => ret.exit_code = 1

\* C26 amended: add never overwrites an existing snippet.  When the target
\* file exists add exits with code 1 and the file is unchanged, two
\* successful adds never write the same path, and an add fails when its file
\* name (the slug of the metadata, else the slug of the title, else the ULID)
\* is the one of an earlier successful add.
C26_SameTargetFails ==
    /\ NeverOverwrites
    /\ (TitleUsedBefore /\ AddTarget \in DOMAIN ret.before) => ret.exit_code = 1

\* a second add with the title of an earlier one, refused because its file
\* exists
C26_Witness ==
    /\ TitleUsedBefore
    /\ ret.title # <<>>
    /\ AddTarget \in DOMAIN ret.before
    /\ ret.before[AddTarget].kind = "file"
    /\ ret.exit_code = 1
    /\ fs = ret.before

(***************************************************************************)
(* Properties of the validator's main                                      *)
(***************************************************************************)
IsMain == pc = "returned" /\ ret.op = "main"

\* the filenames main has to validate: 'snippets' among the parts, suffix .md
SnippetFilenames == SelectSeq(ret.filenames, LAMBDA f : is_snippet_markdown(f.path))

\* what validate_markdown_file gives for one of the filenames under the
\* loaded schema
ErrorsOf(f) ==
    validate_markdown_file(File(path_stem(f.path[Len(f.path)]), f.readable, f.content),
                           ret.schema_file.schema, TRUE)

\* C27: main returns 0 on an empty list of filenames without loading the
\* schema; on a non-empty list (the schema file being loadable) it validates
\* exactly the files with 'snippets' among the path parts and the suffix .md,
\* all of them whatever the earlier ones gave, and returns 1 exactly when one
\* of them has a non-empty error list.
C27_MainExitCode ==
    IsMain =>
        /\ ret.filenames = <<>> =>
               /\ ret.value.status = "returned"
               /\ ret.value.exit_code = 0
               /\ ~ret.value.schema_loaded
        /\ (ret.filenames # <<>> /\ ret.schema_file.state = "loaded") =>
               /\ ret.value.status = "returned"
               /\ ret.value.validated = [i \in 1..Len(SnippetFilenames) |-> SnippetFilenames[i].path]
               /\ ret.value.exit_code = 1 <=>
                      \E i \in 1..Len(SnippetFilenames) :
                          ErrorsOf(SnippetFilenames[i]).errors # <<>>

\* the same for the runs in which no call of validate_markdown_file raises
C27_MainExitCodeNoRaise ==
    (IsMain /\ \A i \in 1..Len(SnippetFilenames) : ErrorsOf(SnippetFilenames[i]).raised = "none")
        => C27_MainExitCode

\* an invalid file followed by a valid one, both validated, exit code 1
C27_BothValidated ==
    /\ IsMain
    /\ Len(ret.value.validated) = 2
    /\ ErrorsOf(SnippetFilenames[1]).errors # <<>>
    /\ ErrorsOf(SnippetFilenames[2]).errors = <<>>
    /\ ret.value.exit_code = 1

\* the hooks with id snippets-validator in the first repos entry named local
\* of a config file, 0 when the file is not a mapping with such an entry
ValidatorHooks(data) ==
    LET repos == IF data.valid THEN ReposOf(data.doc) ELSE <<>>
        at == first_local(repos)
    IN IF at = 0 THEN 0
       ELSE Cardinality({k \in 1..Len(HooksOf(repos[at])) :
                            HooksOf(repos[at])[k].id = "snippets-validator"})

\* C28: whatever init and clean commands have run, on a repository that had
\* no .pre-commit-config.yaml or one with at most one snippets-validator hook,
\* the first repo entry named local of every .pre-commit-config.yaml holds at
\* most one hook with id snippets-validator.
C28_HookAddedOnce ==
    \A repo \in RepoArguments :
        path_join(repo, PrecommitConfig) \in DOMAIN fs =>
            ValidatorHooks(fs[path_join(repo, PrecommitConfig)].data) <= 1

\* an init that went through on a config that already had the hook, and left
\* the one hook
C28_Witness ==
    /\ InitRuns
    /\ ret.exit_code = 0
    /\ HadParseableConfig
    /\ ValidatorHooks(ConfigBefore) = 1
    /\ ConfigAfter = ConfigBefore
    /\ path_join(ret.repo, SnippetsSchema) \in DOMAIN fs

IsClean == pc = "returned" /\ ret.op = "clean"

\* snippets-schema.json, snippets.toml, snippets/ and
\* scripts/snippets-validator.py in repo
RemovedByClean(repo) == ArtifactPaths(repo) \ {path_join(repo, PrecommitConfig)}

\* the command before the last one was a successful init of the same directory
AfterSuccessfulInit ==
    /\ memo[2].op = "init"
    /\ memo[2].repo = ret.repo
    /\ memo[2].exit_code = 0

\* the two commands before the last one were a successful init and a clean of
\* the same directory
AfterInitAndClean ==
    /\ memo[2].op = "clean"
    /\ memo[2].repo = ret.repo
    /\ memo[3].op = "init"
    /\ memo[3].repo = ret.repo
    /\ memo[3].exit_code = 0

\* C29: a clean that follows a successful init exits 0, removes
\* snippets-schema.json, snippets.toml, the snippets directory and
\* scripts/snippets-validator.py and nothing else, so that
\* .pre-commit-config.yaml and the scripts directory stay; an init that follows
\* this clean exits 0 and the four artifacts exist again; an init that follows
\* a successful init directly exits 1, snippets-schema.json being there.
C29_InitCleanRoundTrip ==
    /\ (IsClean /\ AfterSuccessfulInit) =>
           /\ ret.exit_code = 0
           /\ RemovedByClean(ret.repo) \subseteq DOMAIN ret.before
           /\ DOMAIN fs = DOMAIN ret.before \ RemovedByClean(ret.repo)
           /\ \A p \in DOMAIN fs : fs[p] = ret.before[p]
           /\ path_join(ret.repo, PrecommitConfig) \in DOMAIN fs
           /\ path_join(ret.repo, ScriptsDir) \in DOMAIN fs
    /\ (IsInit /\ AfterInitAndClean) =>
           /\ ret.exit_code = 0
           /\ RemovedByClean(ret.repo) \cap DOMAIN ret.before = {}
           /\ ArtifactPaths(ret.repo) \subseteq DOMAIN fs
    /\ (IsInit /\ AfterSuccessfulInit) =>
           /\ ret.exit_code = 1
           /\ ret.status = "exit"
           /\ path_join(ret.repo, SnippetsSchema) \in DOMAIN ret.before

\* the third command of init, clean, init has restored the artifacts
C29_Witness ==
    /\ IsInit
    /\ AfterInitAndClean
    /\ ret.exit_code = 0
    /\ RemovedByClean(ret.repo) \subseteq DOMAIN fs

\* the second of two inits in a row has exited with code 1
C29_SecondInit ==
    /\ IsInit
    /\ AfterSuccessfulInit
    /\ ret.exit_code = 1

\* a command of the CLI has ended with exit code 1
CommandExited1 ==
    /\ pc = "returned"
    /\ ret.op \in {"init", "clean", "add"}
    /\ ret.status = "exit"
    /\ ret.exit_code = 1

\* C30: an init, clean or add command that exits with code 1 leaves the file
\* system as it was: no file or directory is created, modified or removed.
C30_Exit1LeavesUnchanged == CommandExited1 => fs = ret.before

\* the same for add alone
C30_AddExit1LeavesUnchanged == (CommandExited1 /\ ret.op = "add") => fs = ret.before

\* the same for a clean that exits at its first removal, and an init that
\* exits before create_snippets_toml
C30_EarlyExitLeavesUnchanged ==
    /\ (CommandExited1 /\ ret.op = "clean"
            /\ path_join(ret.repo, SnippetsSchema) \notin DOMAIN ret.before) => fs = ret.before
    /\ (CommandExited1 /\ ret.op = "init"
            /\ path_join(ret.repo, DotGit) \notin DOMAIN ret.before) => fs = ret.before

====
